---- MODULE Spec2Model ----
(***************************************************************************)
(* A model of the xray-lite server core: the Reality admission layer       *)
(* (transport/reality/server_rustls.rs, hello_parser.rs), the hand-written *)
(* ServerHello injection (transport/reality/auth.rs), the VLESS codec      *)
(* (protocol/vless) and the VLESS session drivers (handler.rs, server.rs). *)
(*                                                                         *)
(* Byte strings are sequences of 0..255.  Each subsystem keeps its state   *)
(* in one record variable; a specification that does not exercise a        *)
(* subsystem leaves its variable at Idle.                                  *)
(***************************************************************************)
EXTENDS Integers, Sequences, FiniteSets, TLC

VARIABLES
    addr,   \* Address codec exercise: an Address, its encoding, its decoding
    vl,     \* one VLESS session: the driver's position, buffers and sockets
    au,     \* one ServerHello of the hand-written handshake and its injection
    ver,    \* one ClientHello put through parse_client_hello and the verifier
    adm,    \* one connection in RealityServerRustls::accept and its caller
    rq,     \* VlessRequest codec exercise: a request, its wire form, its decoding
    xh,     \* one XHTTP (HTTP/2) connection: its requests and the session table
    srv,    \* one inbound: its accept loop, connection tasks and relay counter
    snf,    \* sniffer exercise: a byte string and what sniff_tls_sni makes of it
    ps      \* one PrefixedStream: its cursor, its inner stream and what was read

vars == <<addr, vl, au, ver, adm, rq, xh, srv, snf, ps>>

\* What the actions of one subsystem leave alone
notAddr == <<vl, au, ver, adm, rq, xh, srv, snf, ps>>
notVl == <<addr, au, ver, adm, rq, xh, srv, snf, ps>>
notAu == <<addr, vl, ver, adm, rq, xh, srv, snf, ps>>
notVer == <<addr, vl, au, adm, rq, xh, srv, snf, ps>>
notAdm == <<addr, vl, au, ver, rq, xh, srv, snf, ps>>
notRq == <<addr, vl, au, ver, adm, xh, srv, snf, ps>>
notXh == <<addr, vl, au, ver, adm, rq, srv, snf, ps>>
notSrv == <<addr, vl, au, ver, adm, rq, xh, snf, ps>>
notSnf == <<addr, vl, au, ver, adm, rq, xh, srv, ps>>
notPs == <<addr, vl, au, ver, adm, rq, xh, srv, snf>>

Idle == [pc |-> "idle"]

----------------------------------------------------------------------------
(* Byte-string helpers (bytes::Buf / BufMut as the code uses them)         *)

Min(a, b) == IF a < b THEN a ELSE b

Take(s, n) == SubSeq(s, 1, Min(n, Len(s)))

Drop(s, n) == SubSeq(s, Min(n, Len(s)) + 1, Len(s))

Rep(b, n) == [i \in 1..n |-> b]

\* u16::from_be_bytes / Buf::get_u16
U16(hi, lo) == hi * 256 + lo

\* BufMut::put_u16 (big-endian)
PutU16(v) == <<(v \div 256) % 256, v % 256>>

\* `x as u8`
AsU8(x) == x % 256

----------------------------------------------------------------------------
(* String::from_utf8: well-formedness of a byte string as UTF-8            *)

InR(b, lo, hi) == lo <= b /\ b <= hi

IsCont(b) == InR(b, 128, 191)

\* The number of continuation bytes a lead byte announces; -1: not a lead byte.
NeedCont(b) ==
    IF b <= 127 THEN 0
    ELSE IF InR(b, 194, 223) THEN 1
    ELSE IF InR(b, 224, 239) THEN 2
    ELSE IF InR(b, 240, 244) THEN 3
    ELSE -1

\* The range of the first continuation byte after lead byte b.
SecondOk(b, c) ==
    CASE b = 224 -> InR(c, 160, 191)
      [] b = 237 -> InR(c, 128, 159)
      [] b = 240 -> InR(c, 144, 191)
      [] b = 244 -> InR(c, 128, 143)
      [] OTHER -> IsCont(c)

\* Every byte that is not a continuation byte is a lead byte followed by
\* exactly the continuation bytes it announces, and the string starts with one.
IsUtf8(s) ==
    /\ Len(s) > 0 => ~IsCont(s[1])
    /\ \A i \in 1..Len(s) :
          IsCont(s[i]) \/
          LET k == NeedCont(s[i])
          IN  /\ k >= 0
              /\ i + k <= Len(s)
              /\ \A j \in 1..k : IsCont(s[i + j])
              /\ k >= 1 => SecondOk(s[i], s[i + 1])
              /\ i + k + 1 <= Len(s) => ~IsCont(s[i + k + 1])

----------------------------------------------------------------------------
(* The cryptographic primitives the code takes from libraries (sha2, hmac, *)
(* hkdf, x25519-dalek, aes-gcm).  Each is modelled by a function of the    *)
(* same interface that depends on every byte of every argument; none is    *)
(* the real algorithm.                                                     *)

RECURSIVE SumTo(_, _, _)
\* s[lo] + ... + s[hi], by halves
SumTo(s, lo, hi) ==
    IF lo > hi THEN 0
    ELSE IF lo = hi THEN s[lo]
    ELSE LET mid == (lo + hi) \div 2
         IN  SumTo(s, lo, mid) + SumTo(s, mid + 1, hi)

Sum(s) == SumTo(s, 1, Len(s))

WSum(s) == SumTo([j \in 1..Len(s) |-> j * s[j]], 1, Len(s))

\* Sha256::new().update(m).finalize(): a 32-byte digest
Sha256(m) ==
    LET s1 == Sum(m)
        s2 == WSum(m)
        a == [i \in 1..32 |-> IF i = 1 THEN 4 ELSE i + 2]
        b == [i \in 1..32 |-> IF i = 2 THEN 6 ELSE 2 * i + 1]
    IN  [i \in 1..32 |-> (s1 * a[i] + s2 * b[i] + 31 * Len(m) + i * i) % 256]

\* HMAC over the digest: H((K + opad) || H((K + ipad) || m)), K padded to the
\* 64-byte block
HmacSha256(key, m) ==
    LET k == (IF Len(key) > 64 THEN Sha256(key) ELSE key)
        kb == k \o Rep(0, 64 - Len(k))
        ipad == [i \in 1..64 |-> (kb[i] + 54) % 256]
        opad == [i \in 1..64 |-> (kb[i] + 92) % 256]
    IN  Sha256(opad \o Sha256(ipad \o m))

\* "REALITY"
InfoReality == <<82, 69, 65, 76, 73, 84, 89>>

\* Hkdf::<Sha256>::new(Some(salt), ikm).expand(info, 32 bytes)
HkdfSha256(salt, ikm, info) ==
    HmacSha256(HmacSha256(salt, ikm), info \o <<1>>)

\* x25519: PublicKey::from(&secret), and secret.diffie_hellman(&public); the
\* two sides of an exchange compute the same shared secret
X25519Public(secret) == [i \in 1..32 |-> (3 * secret[i] + 1) % 256]

X25519(secret, public) ==
    [i \in 1..32 |-> ((3 * secret[i] + 1) * public[i]) % 256]

\* Aes256Gcm: encrypt_in_place appends a 16-byte tag to the ciphertext;
\* decrypt_in_place checks the tag over (key, nonce, aad, ciphertext) and
\* leaves the plaintext, or fails
AeadKeystream(key, nonce, n) ==
    LET ks == Sha256(key \o nonce) IN [i \in 1..n |-> ks[((i - 1) % 32) + 1]]

AeadTag(key, nonce, aad, ct) ==
    Take(HmacSha256(key, nonce \o PutU16(Len(aad)) \o aad \o ct), 16)

AeadSeal(key, nonce, aad, pt) ==
    LET ks == AeadKeystream(key, nonce, Len(pt))
        ct == [i \in 1..Len(pt) |-> (pt[i] + ks[i]) % 256]
    IN  ct \o AeadTag(key, nonce, aad, ct)

AeadOpen(key, nonce, aad, buffer) ==
    IF Len(buffer) < 16 THEN [ok |-> FALSE, pt |-> <<>>]
    ELSE LET n == Len(buffer) - 16
             ct == Take(buffer, n)
             ks == AeadKeystream(key, nonce, n)
         IN  IF Drop(buffer, n) = AeadTag(key, nonce, aad, ct)
             THEN [ok |-> TRUE,
                   pt |-> [i \in 1..n |-> (ct[i] - ks[i] + 256) % 256]]
             ELSE [ok |-> FALSE, pt |-> <<>>]

----------------------------------------------------------------------------
(* transport/reality/hello_parser.rs                                       *)

None == [some |-> FALSE, v |-> <<>>]
Some(v) == [some |-> TRUE, v |-> v]

\* Ok(None), Err(_) and Ok(Some(ClientHelloInfo))
ParsedNone == [kind |-> "none", session_id |-> <<>>, client_random |-> <<>>,
               public_key |-> None, server_name |-> None]
ParsedErr == [ParsedNone EXCEPT !.kind = "err"]
ParsedInfo(sid, random, pk, sn) ==
    [kind |-> "some", session_id |-> sid, client_random |-> random,
     public_key |-> pk, server_name |-> sn]

RECURSIVE SniList(_, _)
\* The walk over server_name_list: the first host_name entry decides
SniList(list, server_name) ==
    IF Len(list) < 3 THEN server_name
    ELSE LET name_type == list[1]
             name_len == U16(list[2], list[3])
             l1 == Drop(list, 3)
         IN  IF Len(l1) < name_len THEN server_name
             ELSE IF name_type = 0
                  THEN IF IsUtf8(Take(l1, name_len))
                       THEN Some(Take(l1, name_len))
                       ELSE server_name
                  ELSE SniList(Drop(l1, name_len), server_name)

\* The server_name extension (0x0000)
SniExtension(ext_data, server_name) ==
    IF Len(ext_data) >= 2
    THEN LET list_len == U16(ext_data[1], ext_data[2])
             d1 == Drop(ext_data, 2)
         IN  IF Len(d1) >= list_len THEN SniList(Take(d1, list_len), server_name)
             ELSE server_name
    ELSE server_name

RECURSIVE ShareList(_, _)
\* The walk over client_shares: the first X25519 entry of 32 bytes
ShareList(shares, public_key) ==
    IF Len(shares) < 4 THEN public_key
    ELSE LET group == U16(shares[1], shares[2])
             key_len == U16(shares[3], shares[4])
             s1 == Drop(shares, 4)
         IN  IF Len(s1) < key_len THEN public_key
             ELSE IF group = 29 /\ key_len = 32 THEN Some(Take(s1, 32))
             ELSE ShareList(Drop(s1, key_len), public_key)

\* The key_share extension (0x0033).  A mutant first: the key is taken from
\* the first entry whatever its group and length.
KeyShareExtensionFirstEntry(ext_data, public_key) ==
    IF Len(ext_data) < 6 THEN public_key ELSE Some(Take(Drop(ext_data, 6), 32))

KeyShareExtension(ext_data, public_key) ==
    IF Len(ext_data) < 2 THEN public_key
    ELSE LET shares_len == U16(ext_data[1], ext_data[2])
             d1 == Drop(ext_data, 2)
         IN  IF Len(d1) < shares_len THEN public_key
             ELSE ShareList(Take(d1, shares_len), public_key)

RECURSIVE Extensions(_, _, _)
\* The loop over the extensions block: [public_key, server_name] at its end
Extensions(extensions, public_key, server_name) ==
    IF Len(extensions) < 4 THEN <<public_key, server_name>>
    ELSE LET ext_type == U16(extensions[1], extensions[2])
             ext_len == U16(extensions[3], extensions[4])
             e1 == Drop(extensions, 4)
         IN  IF Len(e1) < ext_len THEN <<public_key, server_name>>
             ELSE LET ext_data == Take(e1, ext_len)
                      sn == IF ext_type = 0 THEN SniExtension(ext_data, server_name)
                            ELSE server_name
                      pk == IF ext_type = 51
                            THEN KeyShareExtension(ext_data, public_key)
                            ELSE public_key
                  IN  IF pk.some /\ sn.some THEN <<pk, sn>>
                      ELSE Extensions(Drop(e1, ext_len), pk, sn)

\* The fields after the session id: cipher suites, compression methods,
\* extensions
AfterSessionId(c5, session_id, client_random) ==
    IF Len(c5) < 2 THEN ParsedErr
    ELSE LET cipher_suites_len == U16(c5[1], c5[2])
             c6 == Drop(c5, 2)
         IN  IF Len(c6) < cipher_suites_len THEN ParsedErr
             ELSE LET c7 == Drop(c6, cipher_suites_len)
                  IN  IF Len(c7) < 1 THEN ParsedErr
                      ELSE LET compression_methods_len == c7[1]
                               c8 == Tail(c7)
                           IN  IF Len(c8) < compression_methods_len THEN ParsedErr
                               ELSE LET c9 == Drop(c8, compression_methods_len)
                                    IN  IF Len(c9) < 2
                                        THEN ParsedInfo(session_id, client_random,
                                                        None, None)
                                        ELSE LET extensions_len == U16(c9[1], c9[2])
                                                 c10 == Drop(c9, 2)
                                             IN  IF Len(c10) < extensions_len
                                                 THEN ParsedErr
                                                 ELSE LET r == Extensions(
                                                               Take(c10, extensions_len),
                                                               None, None)
                                                      IN  ParsedInfo(session_id,
                                                            client_random, r[1], r[2])

\* parse_client_hello
ParseClientHello(buf) ==
    IF Len(buf) < 5 \/ buf[1] # 22 THEN ParsedNone
    ELSE LET record_len == U16(buf[4], buf[5])
         IN  IF Len(buf) < 5 + record_len THEN ParsedNone
             ELSE LET c0 == Drop(buf, 5)
                  IN  IF Len(c0) < 4 THEN ParsedErr
                      ELSE IF c0[1] # 1 THEN ParsedNone
                      ELSE LET c1 == Drop(c0, 4)
                           IN  IF Len(c1) < 2 THEN ParsedErr
                               ELSE LET c2 == Drop(c1, 2)
                                    IN  IF Len(c2) < 32 THEN ParsedErr
                                        ELSE LET client_random == Take(c2, 32)
                                                 c3 == Drop(c2, 32)
                                             IN  IF Len(c3) < 1 THEN ParsedErr
                                                 ELSE LET session_id_len == c3[1]
                                                          c4 == Tail(c3)
                                                      IN  IF Len(c4) < session_id_len
                                                          THEN ParsedErr
                                                          ELSE AfterSessionId(
                                                                 Drop(c4, session_id_len),
                                                                 Take(c4, session_id_len),
                                                                 client_random)

----------------------------------------------------------------------------
(* transport/reality/server_rustls.rs: verify_client_reality               *)

\* hex::encode, as the sequence of the string's hexadecimal digits
HexEncode(s) ==
    [k \in 1..(2 * Len(s)) |->
        IF k % 2 = 1 THEN s[(k + 1) \div 2] \div 16 ELSE s[k \div 2] % 16]

\* str::find: the index (from 0) of the first occurrence of needle in hay, -1
\* when there is none
StrFind(hay, needle) ==
    LET at == {p \in 0..(Len(hay) - Len(needle)) :
                 \A k \in 1..Len(needle) : hay[p + k] = needle[k]}
    IN  IF at = {} THEN -1 ELSE CHOOSE p \in at : \A q \in at : p <= q

\* The AAD: the handshake message with the 32 bytes at the found position of
\* the session id (or, when it is not found, at offset 39) set to zero
AadBuffer(session_id, full_client_hello) ==
    LET handshake_msg ==
            IF Len(full_client_hello) > 5 /\ full_client_hello[1] = 22
            THEN Drop(full_client_hello, 5) ELSE full_client_hello
        pos_char == StrFind(HexEncode(handshake_msg), HexEncode(session_id))
        pos == pos_char \div 2
    IN  IF pos_char >= 0
        THEN [j \in 1..Len(handshake_msg) |->
                IF pos < j /\ j <= pos + 32 THEN 0 ELSE handshake_msg[j]]
        ELSE IF Len(handshake_msg) >= 39 + 32
        THEN [j \in 1..Len(handshake_msg) |->
                IF 39 < j /\ j <= 39 + 32 THEN 0 ELSE handshake_msg[j]]
        ELSE handshake_msg

\* Step 6, the Short ID test on the decrypted payload.
\* A mutant first: an empty list admits every payload.
ShortIdFoundOrEmpty(short_ids, buffer) ==
    \/ short_ids = <<>>
    \/ \E i \in 1..Len(short_ids) :
          short_ids[i] = SubSeq(buffer, 5, 12) \/ short_ids[i] = SubSeq(buffer, 9, 16)

ShortIdFound(short_ids, buffer) ==
    LET sid_4 == SubSeq(buffer, 5, 12)
        sid_8 == SubSeq(buffer, 9, 16)
    IN  \E i \in 1..Len(short_ids) : short_ids[i] = sid_4 \/ short_ids[i] = sid_8

Refused(why) == [found |-> FALSE, why |-> why, payload |-> <<>>]

\* verify_client_reality(info, full_client_hello) under reality_config: the
\* returned bool, with the reason and the decrypted payload it logs
VerifyClientReality(config, info, full_client_hello) ==
    IF Len(info.session_id) # 32 THEN Refused("session_id")
    ELSE IF ~info.public_key.some THEN Refused("no_key")
    ELSE IF Len(info.public_key.v) # 32 THEN Refused("key_len")
    ELSE IF Len(config.private_key) # 32 THEN Refused("private_key")
    ELSE LET shared_secret == X25519(config.private_key, info.public_key.v)
             auth_key == HkdfSha256(Take(info.client_random, 20), shared_secret,
                                    InfoReality)
             nonce == SubSeq(info.client_random, 21, 32)
             aad_buffer == AadBuffer(info.session_id, full_client_hello)
             opened == AeadOpen(auth_key, nonce, aad_buffer, info.session_id)
         IN  IF ~opened.ok THEN Refused("aead")
             ELSE IF Len(opened.pt) < 16 THEN Refused("payload_len")
             ELSE [found |-> ShortIdFound(config.short_ids, opened.pt),
                   why |-> "short_id", payload |-> opened.pt]

----------------------------------------------------------------------------
(* protocol/vless/address.rs                                               *)
(* An Address is [tag, host, port]: host holds the 4 or 16 octets of an IP *)
(* address, or the UTF-8 bytes of a Domain's String.                       *)

Ipv4(ip, port) == [tag |-> "Ipv4", host |-> ip, port |-> port]
Ipv6(ip, port) == [tag |-> "Ipv6", host |-> ip, port |-> port]
Domain(name, port) == [tag |-> "Domain", host |-> name, port |-> port]

\* "example.com"
ExampleCom == <<101, 120, 97, 109, 112, 108, 101, 46, 99, 111, 109>>

NoAddress == [tag |-> "None", host |-> <<>>, port |-> 0]

AddrOk(a, rest) == [ok |-> TRUE, addr |-> a, rest |-> rest]
AddrErr(rest) == [ok |-> FALSE, addr |-> NoAddress, rest |-> rest]

\* Address::encode: the bytes appended to the buffer.
AddressEncode(a) ==
    CASE a.tag = "Ipv4" -> <<1>> \o a.host \o PutU16(a.port)
      [] a.tag = "Domain" ->
            <<2, AsU8(Len(a.host))>> \o a.host \o PutU16(a.port)
      [] a.tag = "Ipv6" -> <<3>> \o a.host \o PutU16(a.port)

\* The 0x00 arm of Address::decode: the next byte is tried as a domain length.
DecodeTypeZero(b1) ==
    IF Len(b1) >= 1
    THEN LET len == b1[1]
             b2 == Tail(b1)
         IN  IF Len(b2) >= len + 2 /\ len > 0 /\ len < 256
             THEN LET name == Take(b2, len)
                      b3 == Drop(b2, len)
                  IN  IF IsUtf8(name)
                      THEN AddrOk(Domain(name, U16(b3[1], b3[2])), Drop(b3, 2))
                      ELSE AddrErr(b3)
             ELSE AddrErr(b2)
    ELSE AddrErr(b1)

\* Address::decode on a BytesMut holding buf: the value or the error, and the
\* bytes left in the buffer.
AddressDecode(buf) ==
    IF Len(buf) < 1 THEN AddrErr(buf)
    ELSE LET addr_type == buf[1]
             b1 == Tail(buf)
         IN  CASE addr_type = 1 ->
                    IF Len(b1) < 6 THEN AddrErr(b1)
                    ELSE AddrOk(Ipv4(Take(b1, 4), U16(b1[5], b1[6])), Drop(b1, 6))
               [] addr_type = 2 ->
                    IF Len(b1) < 1 THEN AddrErr(b1)
                    ELSE LET len == b1[1]
                             b2 == Tail(b1)
                         IN  IF Len(b2) < len + 2 THEN AddrErr(b2)
                             ELSE LET name == Take(b2, len)
                                      b3 == Drop(b2, len)
                                  IN  IF IsUtf8(name)
                                      THEN AddrOk(Domain(name, U16(b3[1], b3[2])),
                                                  Drop(b3, 2))
                                      ELSE AddrErr(b3)
               [] addr_type = 3 ->
                    IF Len(b1) < 18 THEN AddrErr(b1)
                    ELSE AddrOk(Ipv6(Take(b1, 16), U16(b1[17], b1[18])), Drop(b1, 18))
               [] addr_type = 0 -> DecodeTypeZero(b1)
               [] OTHER -> AddrErr(b1)

----------------------------------------------------------------------------
(* protocol/vless/request.rs, response.rs, codec.rs                        *)

VLESS_VERSION == 0

\* Command::from_u8
CommandFromU8(v) ==
    CASE v = 1 -> "Tcp" [] v = 2 -> "Udp" [] v = 3 -> "Mux" [] OTHER -> "Err"

\* allowed_uuids.contains(&uuid).  A mutant first: every UUID passes.
UuidAllowedAny(uuid, allowed_uuids) == TRUE

UuidAllowed(uuid, allowed_uuids) == uuid \in allowed_uuids

NoRequest(rest, err) ==
    [ok |-> FALSE, err |-> err, uuid |-> <<>>, command |-> "Err",
     address |-> NoAddress, addon_length |-> 0, rest |-> rest]

\* VlessRequest::decode on a BytesMut holding buf: the request or the error,
\* and the bytes the failed or finished decode leaves in the buffer.
VlessRequestDecode(buf, allowed_uuids) ==
    IF Len(buf) < 22 THEN NoRequest(buf, "short")
    ELSE IF buf[1] # VLESS_VERSION THEN NoRequest(Drop(buf, 1), "version")
    ELSE LET uuid == SubSeq(buf, 2, 17)
         IN  IF ~UuidAllowed(uuid, allowed_uuids)
             THEN NoRequest(Drop(buf, 17), "uuid")
             ELSE LET addon_length == buf[18]
                      b1 == Drop(buf, 18)
                  IN  IF Len(b1) < addon_length THEN NoRequest(b1, "addon")
                      ELSE LET b2 == Drop(b1, addon_length)
                           IN  IF Len(b2) < 1 THEN NoRequest(b2, "command")
                               ELSE LET command == CommandFromU8(b2[1])
                                        a == AddressDecode(Tail(b2))
                                    IN  IF command = "Err"
                                        THEN NoRequest(Tail(b2), "command")
                                        ELSE IF ~a.ok
                                        THEN NoRequest(a.rest, "address")
                                        ELSE [ok |-> TRUE, err |-> "",
                                              uuid |-> uuid, command |-> command,
                                              address |-> a.addr,
                                              addon_length |-> addon_length,
                                              rest |-> a.rest]

\* A mutant first: the addon length byte is left out.
VlessResponseOneByte == <<VLESS_VERSION>>

\* VlessResponse::new().encode(): version, addon_length
VlessResponseBytes == <<VLESS_VERSION, 0>>

----------------------------------------------------------------------------
(* protocol/sniffer.rs                                                     *)

SniffNone == [kind |-> "none", name |-> <<>>]
SniffPanic == [kind |-> "panic", name |-> <<>>]
SniffSome(name) == [kind |-> "some", name |-> name]

RECURSIVE SniffNameList(_)
\* The walk of list_cursor, which runs from the list to the end of the data
SniffNameList(list) ==
    IF Len(list) < 3 THEN SniffNone
    ELSE LET name_type == list[1]
             name_len == U16(list[2], list[3])
             l1 == Drop(list, 3)
         IN  IF Len(l1) < name_len THEN SniffNone
             ELSE IF name_type = 0 /\ IsUtf8(Take(l1, name_len))
             THEN SniffSome(Take(l1, name_len))
             ELSE SniffNameList(Drop(l1, name_len))

RECURSIVE SniffExtensions(_)
\* The walk of ext_cursor, which runs from the extensions to the end of the
\* data; after a server_name extension without a usable name the cursor,
\* already past the list length, is advanced by the whole ext_len
SniffExtensions(ext) ==
    IF Len(ext) < 4 THEN SniffNone
    ELSE LET ext_type == U16(ext[1], ext[2])
             ext_len == U16(ext[3], ext[4])
             e1 == Drop(ext, 4)
         IN  IF Len(e1) < ext_len THEN SniffNone
             ELSE IF ext_type # 0 THEN SniffExtensions(Drop(e1, ext_len))
             ELSE IF ext_len < 2 THEN SniffNone
             ELSE LET list_len == U16(e1[1], e1[2])
                      e2 == Drop(e1, 2)
                  IN  IF Len(e2) < list_len THEN SniffNone
                      ELSE LET found == SniffNameList(e2)
                           IN  IF found.kind = "some" THEN found
                               ELSE IF Len(e2) < ext_len THEN SniffPanic
                               ELSE SniffExtensions(Drop(e2, ext_len))

\* sniff_tls_sni(data): Some(name), None, or a panic of Buf::advance
SniffTlsSni(data) ==
    IF Len(data) < 40 THEN SniffNone
    ELSE IF data[1] # 22 THEN SniffNone
    ELSE LET length == U16(data[4], data[5])
             c0 == Drop(data, 5)
         IN  IF Len(c0) < length THEN SniffNone
             ELSE IF c0[1] # 1 THEN SniffNone
             ELSE LET c1 == Drop(c0, 6)
                  IN  IF Len(c1) < 32 THEN SniffNone
                      ELSE LET c2 == Drop(c1, 32)
                           IN  IF Len(c2) < 1 THEN SniffNone
                               ELSE IF Len(c2) - 1 < c2[1] THEN SniffNone
                               ELSE LET c3 == Drop(c2, 1 + c2[1])
                                    IN  IF Len(c3) < 2 THEN SniffNone
                                        ELSE IF Len(c3) - 2 < U16(c3[1], c3[2])
                                        THEN SniffNone
                                        ELSE LET c4 == Drop(c3, 2 + U16(c3[1], c3[2]))
                                             IN  IF Len(c4) < 1 THEN SniffNone
                                                 ELSE IF Len(c4) - 1 < c4[1]
                                                 THEN SniffNone
                                                 ELSE LET c5 == Drop(c4, 1 + c4[1])
                                                      IN  IF Len(c5) < 2 THEN SniffNone
                                                          ELSE IF Len(c5) - 2 <
                                                                  U16(c5[1], c5[2])
                                                          THEN SniffNone
                                                          ELSE SniffExtensions(
                                                                 Drop(c5, 2))

----------------------------------------------------------------------------
(* The VLESS session drivers: handler.rs serve_vless and server.rs         *)
(* Server::handle_client after admission                                   *)

Http204 == <<72, 84, 84, 80, 47, 49, 46, 49, 32, 50, 48, 52, 32, 78, 111, 32,
             67, 111, 110, 116, 101, 110, 116, 13, 10, 13, 10>>

GET_ == <<71, 69, 84, 32>>
POST == <<80, 79, 83, 84>>
HEAD == <<72, 69, 65, 68>>

\* buf_slice.windows(4).any(|w| w == pat)
WindowsAny(buf, pat) ==
    \E i \in 1..(Len(buf) - 3) : SubSeq(buf, i, i + 3) = pat

\* is_http_probe, evaluated on the buffer the failed decode left.
\* A mutant first: the probe test never matches.
IsHttpProbeNever(buf) == FALSE

IsHttpProbe(buf) ==
    WindowsAny(buf, GET_) \/ WindowsAny(buf, POST) \/ WindowsAny(buf, HEAD)

Drivers == {"serve_vless", "handle_client"}

\* The capacity BytesMut::with_capacity(4096) offers to the first read_buf
FirstReadCap == 4096

VlStart(driver, allowed, stream, closes, sniffing) ==
    [pc |-> "read", driver |-> driver, allowed_uuids |-> allowed,
     sniffing_enabled |-> sniffing,
     stream |-> stream,       \* the bytes the client sends, in order
     closes |-> closes,       \* whether the client closes after them
     arrives |-> 0,           \* when the first of them (or the close) arrives,
                              \* in seconds after the stream is ready
     cuts |-> 1..Len(stream), \* where the network may end a delivery
     pos |-> 0,               \* how many of them the driver has read
     first |-> <<>>,          \* the first read, as the client sent it
     buf |-> <<>>,            \* the BytesMut
     request |-> NoRequest(<<>>, ""),
     decoded |-> FALSE,       \* decode_request has run
     initial_data |-> <<>>,
     toClient |-> <<>>,       \* bytes written to the client stream
     dialed |-> FALSE,        \* TcpStream::connect was called
     target |-> NoAddress,    \* what it was called with
     udpBound |-> FALSE,      \* UdpSocket::bind was called
     remote |-> <<>>,         \* the bytes the destination sends, in order
     rcloses |-> FALSE,       \* whether the destination closes after them
     rpos |-> 0,              \* how many of them the relay has read
     toRemote |-> <<>>,       \* bytes written to the destination
     c2r |-> <<>>,            \* relay buffer, client to destination
     r2c |-> <<>>,            \* relay buffer, destination to client
     c2rDone |-> FALSE,       \* the client's end of stream was passed on
     r2cDone |-> FALSE,       \* the destination's end of stream was passed on
     initial_target |-> NoAddress,  \* the UDP target resolved at session start
     sent |-> <<>>,           \* datagrams sent: [to, data], in order
     dgrams |-> <<>>,         \* datagrams that arrive on the socket, in order
     dnext |-> 1,             \* the next of them to be received
     frame_len |-> -1,        \* send_task: the length read, payload pending
     now |-> 0,               \* the clock, in minutes
     send_last |-> 0,         \* send_task's last_activity
     recv_last |-> 0,         \* recv_task's last_activity
     last_frame |-> 0,        \* when the last client frame arrived
     last_dgram |-> 0,        \* when the last datagram arrived
     ioFailed |-> FALSE,      \* an I/O call returned an error
     result |-> "running"]

\* The timeout around the read of the request, in seconds
ReadTimeoutSecs(driver) == IF driver = "serve_vless" THEN 30 ELSE 5

VlFinish(result) == [vl EXCEPT !.pc = "done", !.result = result]

\* stream.read_buf(&mut buf) under the timeout: n bytes arrive
VlFirstRead ==
    /\ vl.pc = "read"
    /\ vl.arrives <= ReadTimeoutSecs(vl.driver)
    /\ \E n \in vl.cuts \cap (1..Min(Len(vl.stream), FirstReadCap)) :
         vl' = [vl EXCEPT !.pc = "decode", !.pos = n,
                          !.first = Take(vl.stream, n),
                          !.buf = Take(vl.stream, n)]
    /\ UNCHANGED notVl

\* Ok(Ok(0)): the client closed before sending anything
VlFirstReadEof ==
    /\ vl.pc = "read"
    /\ vl.stream = <<>> /\ vl.closes
    /\ vl.arrives <= ReadTimeoutSecs(vl.driver)
    /\ vl' = VlFinish("closed")
    /\ UNCHANGED notVl

\* Ok(Err(e)) and Err(_): the read failed or the timeout expired
VlFirstReadFail ==
    /\ vl.pc = "read"
    /\ \E r \in {"io_error", "timeout"} :
         /\ r = "timeout" => \/ vl.stream = <<>> /\ ~vl.closes
                             \/ vl.arrives >= ReadTimeoutSecs(vl.driver)
         /\ vl' = [VlFinish(r) EXCEPT !.ioFailed = (r = "io_error")]
    /\ UNCHANGED notVl

\* codec.decode_request(&mut buf) and the match on its result
VlDecode ==
    /\ vl.pc = "decode"
    /\ LET r == VlessRequestDecode(vl.buf, vl.allowed_uuids)
       IN  vl' = [vl EXCEPT !.buf = r.rest, !.request = r, !.decoded = TRUE,
                   !.pc = IF r.ok THEN "respond"
                          ELSE IF IsHttpProbe(r.rest) THEN "probe_reply"
                          ELSE "done",
                   !.result = IF r.ok \/ IsHttpProbe(r.rest) THEN "running"
                              ELSE "decode_error"]
    /\ UNCHANGED notVl

\* let _ = stream.write_all(b"HTTP/1.1 204 No Content\r\n\r\n").await; return Ok(())
VlProbeReply ==
    /\ vl.pc = "probe_reply"
    /\ \E wrote \in BOOLEAN :
         vl' = [VlFinish("probe") EXCEPT
                  !.toClient = IF wrote THEN @ \o Http204 ELSE @,
                  !.ioFailed = ~wrote]
    /\ UNCHANGED notVl

\* stream.write_all(&response_bytes).await?
VlRespond ==
    /\ vl.pc = "respond"
    /\ \/ vl' = [vl EXCEPT !.toClient = @ \o VlessResponseBytes,
                           !.pc = "dispatch"]
       \/ vl' = [VlFinish("io_error") EXCEPT !.ioFailed = TRUE]
    /\ UNCHANGED notVl

\* The threshold under which handle_client reads more before sniffing, and
\* the size of the buffer of that read
SniffThreshold == 2048
SniffBufCap == 4096

\* Whether the driver reads once more before sniffing
SniffReadWanted(driver, sniffing_enabled, initial_data) ==
    /\ sniffing_enabled
    /\ IF driver = "serve_vless" THEN initial_data = <<>>
       ELSE Len(initial_data) < SniffThreshold

\* The result of the sniffer where the driver consults it
Sniffed(sniffing_enabled, initial_data) ==
    IF sniffing_enabled /\ initial_data # <<>> THEN SniffTlsSni(initial_data)
    ELSE SniffNone

\* target_address after the sniffing step
TargetAddress(driver, sniffing_enabled, address, initial_data) ==
    LET sni == Sniffed(sniffing_enabled, initial_data)
    IN  IF sni.kind = "some"
        THEN Domain(sni.name, IF driver = "serve_vless" THEN 443 ELSE address.port)
        ELSE address

\* match request.command: the TCP arm up to the sniffing read
VlDispatchTcp ==
    /\ vl.pc = "dispatch" /\ vl.request.command = "Tcp"
    /\ vl' = [vl EXCEPT !.initial_data = vl.buf, !.buf = <<>>,
                        !.pc = IF SniffReadWanted(vl.driver, vl.sniffing_enabled,
                                                  vl.buf)
                               THEN "sniff_read" ELSE "tcp_dial"]
    /\ UNCHANGED notVl

\* The read before sniffing returns n > 0 bytes
VlSniffRead ==
    /\ vl.pc = "sniff_read"
    /\ \E c \in vl.cuts :
         /\ vl.pos < c /\ c - vl.pos <= SniffBufCap
         /\ vl' = [vl EXCEPT !.initial_data = @ \o SubSeq(vl.stream, vl.pos + 1, c),
                             !.pos = c, !.pc = "tcp_dial"]
    /\ UNCHANGED notVl

\* The read before sniffing times out or returns 0; serve_vless also ignores
\* its error
VlSniffNoData ==
    /\ vl.pc = "sniff_read"
    /\ vl' = [vl EXCEPT !.pc = "tcp_dial"]
    /\ UNCHANGED notVl

\* handle_client: the read before sniffing fails
VlSniffFail ==
    /\ vl.pc = "sniff_read" /\ vl.driver = "handle_client"
    /\ vl' = [VlFinish("io_error") EXCEPT !.ioFailed = TRUE]
    /\ UNCHANGED notVl

\* The sniffing step and TcpStream::connect(&target_address)
VlDialTcp ==
    /\ vl.pc = "tcp_dial"
    /\ IF Sniffed(vl.sniffing_enabled, vl.initial_data).kind = "panic"
       THEN vl' = VlFinish("panic")
       ELSE \E ok \in BOOLEAN :
              vl' = [vl EXCEPT
                       !.dialed = TRUE,
                       !.target = TargetAddress(vl.driver, vl.sniffing_enabled,
                                                vl.request.address,
                                                vl.initial_data),
                       !.pc = IF ok THEN "tcp_initial" ELSE "done",
                       !.result = IF ok THEN "running" ELSE "dial_error",
                       !.ioFailed = ~ok]
    /\ UNCHANGED notVl

\* remote_stream.write_all(&initial_data) when there is initial data
VlSendInitial ==
    /\ vl.pc = "tcp_initial"
    /\ vl' = [vl EXCEPT !.toRemote = @ \o vl.initial_data, !.pc = "relay"]
    /\ UNCHANGED notVl

\* remote_stream.write_all(&initial_data) fails after k bytes
VlSendInitialFail ==
    /\ vl.pc = "tcp_initial" /\ vl.initial_data # <<>>
    /\ \E k \in 0..(Len(vl.initial_data) - 1) :
         vl' = [VlFinish("io_error") EXCEPT
                  !.toRemote = @ \o Take(vl.initial_data, k), !.ioFailed = TRUE]
    /\ UNCHANGED notVl

\* the UDP arm: UdpSocket::bind("0.0.0.0:0")
VlDispatchUdp ==
    /\ vl.pc = "dispatch" /\ vl.request.command = "Udp"
    /\ \E ok \in BOOLEAN :
         vl' = [vl EXCEPT !.udpBound = TRUE,
                          !.pc = IF ok THEN "udp" ELSE "done",
                          !.result = IF ok THEN "running" ELSE "io_error",
                          !.ioFailed = ~ok]
    /\ UNCHANGED notVl

\* the MUX arm: warn and return Ok(())
VlDispatchMux ==
    /\ vl.pc = "dispatch" /\ vl.request.command = "Mux"
    /\ vl' = VlFinish("mux_unsupported")
    /\ UNCHANGED notVl

----------------------------------------------------------------------------
(* The sessions the drivers are exercised on                               *)

\* b831381d-6324-4d53-ad4f-8cda48b30811 and a831381d-6324-4d53-ad4f-8cda48b30812
Uuid1 == <<184, 49, 56, 29, 99, 36, 77, 83, 173, 79, 140, 218, 72, 179, 8, 17>>
Uuid2 == <<168, 49, 56, 29, 99, 36, 77, 83, 173, 79, 140, 218, 72, 179, 8, 18>>

\* The wire form of a request: VlessRequest::encode, with addon bytes
RequestBytes(uuid, addon, cmd, a) ==
    <<VLESS_VERSION>> \o uuid \o <<Len(addon)>> \o addon \o <<cmd>>
    \o AddressEncode(a)

\* "GET /anything HTTP/1.1\r\n\r\n" (26 bytes), "GET / HTTP/1.1\r\n\r\n" (18),
\* "POST /up HTTP/1.1\r\n\r\n" (21), "HEAD /index HTTP/1.1\r\n\r\n" (24)
ProbeGet26 == <<71, 69, 84, 32, 47, 97, 110, 121, 116, 104, 105, 110, 103, 32,
                72, 84, 84, 80, 47, 49, 46, 49, 13, 10, 13, 10>>
ProbeGet18 == <<71, 69, 84, 32, 47, 32, 72, 84, 84, 80, 47, 49, 46, 49, 13, 10,
                13, 10>>
ProbePost21 == <<80, 79, 83, 84, 32, 47, 117, 112, 32, 72, 84, 84, 80, 47, 49,
                 46, 49, 13, 10, 13, 10>>
ProbeHead24 == <<72, 69, 65, 68, 32, 47, 105, 110, 100, 101, 120, 32, 72, 84,
                 84, 80, 47, 49, 46, 49, 13, 10, 13, 10>>

\* "Hello non-TLS world"
Garbage == <<72, 101, 108, 108, 111, 32, 110, 111, 110, 45, 84, 76, 83, 32,
             119, 111, 114, 108, 100>>

VlStreams ==
    { RequestBytes(Uuid1, <<>>, 1, Ipv4(<<1, 1, 1, 1>>, 80)),
      RequestBytes(Uuid1, <<>>, 1, Ipv4(<<1, 1, 1, 1>>, 80)) \o <<22, 3, 1>>,
      RequestBytes(Uuid1, <<7, 7>>, 2, Domain(ExampleCom, 53)) \o <<0, 2, 9, 9>>,
      RequestBytes(Uuid1, <<>>, 3, Ipv4(<<1, 1, 1, 1>>, 80)),
      RequestBytes(Uuid2, <<>>, 1, Ipv4(<<1, 1, 1, 1>>, 443)),
      RequestBytes(Uuid2, <<>>, 2, Domain(ExampleCom, 53)) \o ProbeGet18,
      RequestBytes(Uuid1, <<>>, 9, Ipv4(<<1, 1, 1, 1>>, 80)),
      ProbeGet26, ProbeGet18, ProbePost21, ProbeHead24, Garbage, <<>> }

\* When the client's first bytes arrive: at once, after 10 s, after 40 s
Arrivals == {0, 10, 40}

VlInit ==
    /\ vl \in {[VlStart(d, al, st, cl, sn) EXCEPT !.arrives = t] :
                 d \in Drivers, al \in {{}, {Uuid1}, {Uuid1, Uuid2}},
                 st \in VlStreams, cl \in BOOLEAN, sn \in BOOLEAN,
                 t \in Arrivals}
    /\ addr = Idle /\ au = Idle /\ ver = Idle /\ adm = Idle /\ rq = Idle /\ xh = Idle /\ srv = Idle /\ snf = Idle
    /\ ps = Idle

VlNext ==
    \/ VlFirstRead
    \/ VlFirstReadEof
    \/ VlFirstReadFail
    \/ VlDecode
    \/ VlProbeReply
    \/ VlRespond
    \/ VlDispatchTcp
    \/ VlSniffRead
    \/ VlSniffNoData
    \/ VlSniffFail
    \/ VlDialTcp
    \/ VlSendInitial
    \/ VlSendInitialFail
    \/ VlDispatchUdp
    \/ VlDispatchMux

SpecVless == VlInit /\ [][VlNext]_vars

\* The UUID field of the first read is on the allow-list
FirstUuidAllowed ==
    Len(vl.first) >= 17 /\ SubSeq(vl.first, 2, 17) \in vl.allowed_uuids

\* C5: decode yields a request only for an allow-listed UUID, and a session
\* whose UUID is not allow-listed gets no VLESS response, no upstream TCP
\* connection and no UDP socket.
C5_UuidGate ==
    /\ vl.request.ok => FirstUuidAllowed
    /\ (vl.decoded /\ ~FirstUuidAllowed) =>
          /\ vl.toClient \in {<<>>, Http204}
          /\ ~vl.dialed
          /\ ~vl.udpBound

\* A well-formed request whose UUID is not on a non-empty allow-list was refused.
C5_Witness ==
    /\ vl.pc = "done" /\ vl.request.err = "uuid"
    /\ vl.allowed_uuids # {}
    /\ Len(vl.first) >= 22

\* The first read begins with "GET ", "POST" or "HEAD"
BeginsWithProbe == Take(vl.first, 4) \in {GET_, POST, HEAD}

\* C9: when decoding fails on a first read that begins with "GET ", "POST"
\* or "HEAD", the driver answers exactly the 204 line and dials nothing.
C9_ProbeAnswered ==
    (vl.pc = "done" /\ vl.decoded /\ ~vl.request.ok /\ BeginsWithProbe
       /\ ~vl.ioFailed)
    => (vl.toClient = Http204 /\ ~vl.dialed /\ ~vl.udpBound)

----------------------------------------------------------------------------
(* The Address values the codec is exercised on                            *)

\* Longest Domain string tried; 255 is the largest length one byte holds.
MaxDomainLen == 257

Ports == {0, 80, 443, 65535}

\* A lower-case ASCII name of n bytes.
NameOfLen(n) == [i \in 1..n |-> 97 + (i % 26)]

DomainNames ==
    {ExampleCom, <<195, 169, 46, 102, 114>>}      \* "example.com", "é.fr"
    \cup {NameOfLen(n) : n \in {0, 1, 2, 63, 254} \cup (255..MaxDomainLen)}

AddrInputs ==
    {Ipv4(ip, p) : ip \in {<<1, 1, 1, 1>>, <<192, 168, 1, 1>>, <<0, 0, 0, 0>>},
                   p \in Ports}
    \cup {Ipv6(ip, p) : ip \in {<<32, 1, 13, 184>> \o Rep(0, 11) \o <<1>>, Rep(255, 16)},
                        p \in Ports}
    \cup {Domain(n, p) : n \in DomainNames, p \in Ports}

AddrInit0 == addr \in {[pc |-> "new", value |-> a, wire |-> <<>>,
                       decoded |-> AddrErr(<<>>)] : a \in AddrInputs}

\* addr.encode(&mut buf) on an empty BytesMut
AddrEncodeStep ==
    /\ addr.pc = "new"
    /\ addr' = [addr EXCEPT !.pc = "encoded", !.wire = AddressEncode(addr.value)]
    /\ UNCHANGED notAddr

\* Address::decode(&mut buf)
AddrDecodeStep ==
    /\ addr.pc = "encoded"
    /\ addr' = [addr EXCEPT !.pc = "decoded", !.decoded = AddressDecode(addr.wire)]
    /\ UNCHANGED notAddr

AddrInit ==
    /\ AddrInit0
    /\ vl = Idle /\ au = Idle /\ ver = Idle /\ adm = Idle /\ rq = Idle /\ xh = Idle /\ srv = Idle /\ snf = Idle
    /\ ps = Idle

AddrNext == AddrEncodeStep \/ AddrDecodeStep

SpecAddr == AddrInit /\ [][AddrNext]_vars

----------------------------------------------------------------------------
\* C10: for every Address value, Domain of any string length included,
\* decoding the encoding yields the original value and leaves no byte
\* of the encoding unconsumed.
C10_RoundTrip ==
    addr.pc = "decoded" =>
        /\ addr.decoded.ok
        /\ addr.decoded.addr = addr.value
        /\ addr.decoded.rest = <<>>

----------------------------------------------------------------------------
(* transport/reality/auth.rs and the ServerHello of tls.rs, as              *)
(* RealityHandshake::perform uses them                                      *)

\* RealityAuth::generate_auth_tag: SHA-256 over client_random, the whole
\* server_random and the private key
GenerateAuthTag(private_key_bytes, client_random, server_random) ==
    Sha256(client_random \o server_random \o private_key_bytes)

\* RealityAuth::verify_auth_tag
VerifyAuthTag(private_key_bytes, client_random, server_random, received_tag) ==
    LET expected_tag == GenerateAuthTag(private_key_bytes, client_random,
                                        server_random)
    IN  IF Len(received_tag) < 12 THEN FALSE
        ELSE Take(expected_tag, 12) = Take(received_tag, 12)

\* RealityAuth::inject_auth_into_random.  A mutant first: the whole random
\* is replaced by the tag.
InjectAuthIntoRandomWhole(private_key_bytes, original_random, client_random) ==
    GenerateAuthTag(private_key_bytes, client_random, original_random)

InjectAuthIntoRandom(private_key_bytes, original_random, client_random) ==
    LET auth_tag == GenerateAuthTag(private_key_bytes, client_random, original_random)
    IN  Take(original_random, 20) \o Take(auth_tag, 12)

\* ServerHello::new_reality: the handshake message
NewReality(client_session_id, random, key_share_data) ==
    LET extensions_block ==
            PutU16(43) \o PutU16(2) \o PutU16(772)
            \o PutU16(51) \o PutU16(4 + Len(key_share_data)) \o PutU16(29)
            \o PutU16(Len(key_share_data)) \o key_share_data
        body == PutU16(771) \o random
                \o <<AsU8(Len(client_session_id))>> \o client_session_id
                \o PutU16(4865) \o <<0>>
                \o PutU16(Len(extensions_block)) \o extensions_block
        total_len == Len(body)
    IN  <<2, (total_len \div 65536) % 256, (total_len \div 256) % 256,
          total_len % 256>> \o body

\* ServerHelloModifier::modify_server_hello: the message after the call, or
\* the error
ModifyServerHello(private_key_bytes, server_hello_data, client_random) ==
    IF Len(server_hello_data) < 38 THEN [ok |-> FALSE, data |-> server_hello_data]
    ELSE IF server_hello_data[1] # 2 THEN [ok |-> FALSE, data |-> server_hello_data]
    ELSE LET random_offset == 6
             original_random ==
                 SubSeq(server_hello_data, random_offset + 1, random_offset + 32)
             modified_random ==
                 InjectAuthIntoRandom(private_key_bytes, original_random, client_random)
         IN  [ok |-> TRUE,
              data |-> Take(server_hello_data, random_offset) \o modified_random
                       \o Drop(server_hello_data, random_offset + 32)]

\* ServerHello::encode: the TLS record around the message
ServerHelloEncode(raw_data) ==
    <<22>> \o PutU16(771) \o PutU16(Len(raw_data)) \o raw_data

\* The change-cipher-spec record perform writes after the ServerHello
CcsRecord == <<20, 3, 3, 0, 1, 1>>

AuStart(key, cr, sid, cpub, sr) ==
    [pc |-> "start",
     private_key_bytes |-> key,   \* RealityAuth.private_key_bytes
     client_random |-> cr,        \* client_hello.random
     session_id |-> sid,          \* client_hello.session_id
     client_key_share |-> cpub,   \* client_hello.get_key_share()
     server_random |-> sr,        \* what OsRng filled
     raw_data |-> <<>>,           \* ServerHello.raw_data
     before |-> <<>>,             \* raw_data as modify_server_hello received it
     sent |-> <<>>,               \* bytes written to the client
     tagConfirmed |-> FALSE]      \* what verify_auth_tag said of the sent random

\* perform, step 4: ServerHello::new_reality(session_id, server_random, public key)
AuNewReality ==
    /\ au.pc = "start"
    /\ au' = [au EXCEPT !.pc = "built",
                !.raw_data = NewReality(au.session_id, au.server_random,
                                        X25519Public(Rep(9, 32)))]
    /\ UNCHANGED notAu

\* ServerHello::from_raw(data): a message that did not come from new_reality
AuFromRaw ==
    /\ au.pc = "start"
    /\ \E data \in {<<>>, <<2, 0, 0, 33>> \o PutU16(771) \o Take(au.server_random, 31),
                    <<1, 0, 0, 40>> \o PutU16(771) \o au.server_random \o Rep(0, 6)} :
         au' = [au EXCEPT !.pc = "built", !.raw_data = data]
    /\ UNCHANGED notAu

\* server_hello.modify_for_reality(&self.config.private_key, &client_hello.random)?
AuModify ==
    /\ au.pc = "built"
    /\ LET r == ModifyServerHello(au.private_key_bytes, au.raw_data, au.client_random)
       IN  au' = [au EXCEPT !.pc = IF r.ok THEN "modified" ELSE "failed",
                            !.before = au.raw_data,
                            !.raw_data = r.data]
    /\ UNCHANGED notAu

\* perform, step 5: write the ServerHello record and the CCS record
AuSend ==
    /\ au.pc = "modified"
    /\ au' = [au EXCEPT !.pc = "sent",
                        !.sent = ServerHelloEncode(au.raw_data) \o CcsRecord]
    /\ UNCHANGED notAu

\* A holder of the key checks the tag of the random that was sent:
\* verify_auth_tag(client_random, m, m[20..32]) on the emitted random m
AuVerifyTag ==
    /\ au.pc = "sent"
    /\ LET m == SubSeq(au.raw_data, 7, 38)
       IN  au' = [au EXCEPT !.pc = "checked",
                            !.tagConfirmed =
                                VerifyAuthTag(au.private_key_bytes, au.client_random,
                                              m, SubSeq(m, 21, 32))]
    /\ UNCHANGED notAu

\* The long-term key of the demo and tests, and another one
Key42 == Rep(66, 32)
KeyA == Rep(65, 32)

\* 0, 1, ..., 31, with the last n bytes replaced by b
RandomSeq(n, b) == [i \in 1..32 |-> IF i > 32 - n THEN b ELSE i - 1]

AuInit ==
    /\ au \in {AuStart(key, cr, sid, cpub, sr) :
                 key \in {Key42, KeyA},
                 cr \in {Rep(153, 32), Rep(1, 32), RandomSeq(12, 7)},
                 sid \in {Rep(17, 32), <<>>},
                 cpub \in {X25519Public(Rep(3, 32)), X25519Public(Rep(200, 32))},
                 sr \in {RandomSeq(0, 0), RandomSeq(12, 0), RandomSeq(1, 255),
                         Rep(66, 32)}}
    /\ addr = Idle /\ vl = Idle /\ ver = Idle /\ adm = Idle /\ rq = Idle /\ xh = Idle /\ srv = Idle /\ snf = Idle
    /\ ps = Idle

AuNext == AuNewReality \/ AuFromRaw \/ AuModify \/ AuSend \/ AuVerifyTag

SpecAuth == AuInit /\ [][AuNext]_vars

\* The per-session AuthKey of a connection: HKDF over the X25519 secret shared
\* with the client's key share, salted by the first 20 bytes of ClientRandom
SessionAuthKey(private_key, client_random, client_key_share) ==
    HkdfSha256(Take(client_random, 20), X25519(private_key, client_key_share),
               InfoReality)

\* The random field of the ServerHello record that was sent
SentRandom == SubSeq(au.sent, 12, 43)

\* C8: the last 12 bytes of every emitted ServerHello.random are the first 12
\* bytes of the MAC keyed by the session AuthKey over ClientRandom and the
\* first 20 bytes of the emitted random.
C8_TagIsSessionMac ==
    au.pc = "sent" =>
        SubSeq(SentRandom, 21, 32) =
            Take(HmacSha256(SessionAuthKey(au.private_key_bytes, au.client_random,
                                           au.client_key_share),
                            au.client_random \o Take(SentRandom, 20)), 12)

----------------------------------------------------------------------------
(* The verifier exercised on ClientHellos: parse_client_hello, then         *)
(* verify_client_reality (server_rustls.rs, accept lines 120-141)           *)

\* The server_name and key_share extensions, the handshake message and its
\* record, laid out as parse_client_hello reads them
SniBytes(name) ==
    <<0, 0>> \o PutU16(Len(name) + 5) \o PutU16(Len(name) + 3) \o <<0>>
             \o PutU16(Len(name)) \o name

KeyShareBytes(key) ==
    <<0, 51>> \o PutU16(Len(key) + 6) \o PutU16(Len(key) + 4) \o <<0, 29>>
              \o PutU16(Len(key)) \o key

HelloMessage(random, session_id, exts) ==
    LET body == <<3, 3>> \o random \o <<Len(session_id)>> \o session_id
                  \o <<0, 2, 19, 1>> \o <<1, 0>> \o PutU16(Len(exts)) \o exts
    IN  <<1, 0>> \o PutU16(Len(body)) \o body

HandshakeRecord(msg) == <<22, 3, 1>> \o PutU16(Len(msg)) \o msg

\* The ClientHello of a Reality client: the 16-byte payload sealed under the
\* session key into the session id, the AAD being the message with a zero
\* session id
RealityClientHello(server_public, secret, random, payload, exts) ==
    LET auth_key == HkdfSha256(Take(random, 20), X25519(secret, server_public),
                               InfoReality)
        sealed == AeadSeal(auth_key, SubSeq(random, 21, 32),
                           HelloMessage(random, Rep(0, 32), exts), payload)
    IN  HandshakeRecord(HelloMessage(random, sealed, exts))

Sid8 == <<1, 35, 69, 103, 137, 171, 205, 239>>
Sid4 == <<222, 173, 190, 239>>
Sid2 == <<171, 205>>
SidOther == <<9, 9, 9, 9, 9, 9, 9, 9>>

Pad8(sid) == sid \o Rep(0, 8 - Len(sid))

\* The two payload layouts: Short ID at offset 4, or at offset 8
Payload(layout, sid) ==
    IF layout = "A" THEN <<101, 102, 103, 104>> \o Pad8(sid) \o <<0, 0, 0, 0>>
    ELSE <<1, 8, 2, 0, 101, 102, 103, 104>> \o Pad8(sid)

ClientSecret == [i \in 1..32 |-> (5 * i + 3) % 256]
KeyOther == [i \in 1..32 |-> (7 * i) % 256]
ClientRandom == [i \in 1..32 |-> (11 * i + 1) % 256]
Www == <<119, 119, 119>>

ClientKinds == {"reality", "other_server", "flipped", "no_key_share",
                "no_session_id", "cut"}

\* What a client of each kind sends
ClientHelloOf(kind, private_key, payload) ==
    LET full == SniBytes(Www) \o KeyShareBytes(X25519Public(ClientSecret))
        good == RealityClientHello(X25519Public(private_key), ClientSecret,
                                   ClientRandom, payload, full)
    IN  CASE kind = "reality" -> good
          [] kind = "other_server" ->
                RealityClientHello(X25519Public(KeyOther), ClientSecret, ClientRandom,
                                   payload, full)
          [] kind = "flipped" -> [good EXCEPT ![76] = (@ + 1) % 256]
          [] kind = "no_key_share" ->
                RealityClientHello(X25519Public(private_key), ClientSecret,
                                   ClientRandom, payload, SniBytes(Www))
          [] kind = "no_session_id" ->
                HandshakeRecord(HelloMessage(ClientRandom, <<>>, full))
          [] OTHER -> Take(good, 60)

VerStart(short_ids, hello, payload) ==
    [pc |-> "hello",
     config |-> [private_key |-> Key42, short_ids |-> short_ids],
     hello |-> hello, payload |-> payload,
     info |-> ParsedNone, result |-> Refused(""),
     aad |-> <<>>]           \* the AAD handed to decrypt_in_place, if reached

VerParse ==
    /\ ver.pc = "hello"
    /\ ver' = [ver EXCEPT !.pc = "parsed", !.info = ParseClientHello(ver.hello)]
    /\ UNCHANGED notVer

\* Ok(Some(info)): the verifier decides
VerVerify ==
    /\ ver.pc = "parsed" /\ ver.info.kind = "some"
    /\ LET result == VerifyClientReality(ver.config, ver.info, ver.hello)
       IN  ver' = [ver EXCEPT
                     !.pc = "verified",
                     !.result = result,
                     !.aad = IF result.why \in {"aead", "payload_len", "short_id"}
                             THEN AadBuffer(ver.info.session_id, ver.hello)
                             ELSE <<>>]
    /\ UNCHANGED notVer

\* Ok(None) and Err(_): fall back without consulting the verifier
VerNoInfo ==
    /\ ver.pc = "parsed" /\ ver.info.kind # "some"
    /\ ver' = [ver EXCEPT !.pc = "fallback"]
    /\ UNCHANGED notVer

ShortIdLists == {<<>>, <<Sid8>>, <<Sid2>>, <<Sid4, Sid8>>, <<SidOther>>}

VerInit ==
    /\ ver \in {VerStart(ids, ClientHelloOf(k, Key42, Payload(l, sid)),
                         Payload(l, sid)) :
                  ids \in ShortIdLists, k \in ClientKinds, l \in {"A", "B"},
                  sid \in {Sid8, Sid4, Sid2, SidOther}}
    /\ addr = Idle /\ vl = Idle /\ au = Idle /\ adm = Idle /\ rq = Idle /\ xh = Idle /\ srv = Idle /\ snf = Idle
    /\ ps = Idle

VerNext == VerParse \/ VerVerify \/ VerNoInfo

SpecVerify == VerInit /\ [][VerNext]_vars

\* A configured Short ID that the decrypted payload carries at offset 4 or at
\* offset 8, compared over the Short ID's own length
CarriesConfiguredShortId(short_ids, payload) ==
    \E i \in 1..Len(short_ids) :
        LET L == Len(short_ids[i])
        IN  /\ 0 < L /\ L <= 8
            /\ \/ SubSeq(payload, 5, 4 + L) = short_ids[i]
               \/ SubSeq(payload, 9, 8 + L) = short_ids[i]

\* C6: a ClientHello whose decrypted 16-byte payload carries a configured
\* Short ID of length 1..8 at offset 4 or 8, compared over that length, is
\* accepted by verify_client_reality.
C6_ShortIdDeclaredLength ==
    (/\ ver.pc = "verified"
     /\ ver.result.why = "short_id"
     /\ CarriesConfiguredShortId(ver.config.short_ids, ver.result.payload))
    => ver.result.found

\* C7: with an empty Short ID list verify_client_reality returns false for
\* every ClientHello, also for one whose session id decrypts under the
\* derived key.
C7_EmptyListRejectsAll ==
    (ver.pc = "verified" /\ ver.config.short_ids = <<>>) => ~ver.result.found

C7_Witness ==
    /\ ver.pc = "verified" /\ ver.config.short_ids = <<>>
    /\ ver.result.why = "short_id"
    /\ ver.result.payload = ver.payload
    /\ ~ver.result.found

----------------------------------------------------------------------------
(* transport/reality/server_rustls.rs: accept and fallback, and the caller  *)
(* of accept in server.rs (handle_client)                                   *)

ChunkSize == 1024
RecordLimit == 16384

IsPrefix(a, b) == Len(a) <= Len(b) /\ a = Take(b, Len(a))

\* Step 2 of accept: the length the record header announces
Needed(buffer) ==
    IF Len(buffer) >= 5 /\ buffer[1] = 22
    THEN 5 + U16(buffer[4], buffer[5]) ELSE Len(buffer)

\* A mutant first: the loop of step 3 without its size limit.
WantsMoreNoLimit(buffer, needed) == Len(buffer) < needed

\* The condition of the loop of step 3
WantsMore(buffer, needed) == Len(buffer) < needed /\ Len(buffer) < RecordLimit

\* The admission decision.  A mutant first: nothing falls back.
ShouldFallbackNever(config, buffer) == FALSE

ShouldFallback(config, buffer) ==
    LET parse_result == ParseClientHello(buffer)
    IN  IF parse_result.kind = "some"
        THEN ~VerifyClientReality(config, parse_result, buffer).found
        ELSE TRUE

\* The prefix handed to fallback.  A mutant first: the first byte is dropped.
FallbackPrefixTail(buffer) == Tail(buffer)

FallbackPrefix(buffer) == buffer

\* What one write of tokio::io::copy moves out of its buffer.  A mutant first:
\* a byte is written twice.
CopyWriteTwice(inflight, k) == Take(inflight, k) \o Take(inflight, 1)

CopyWrite(inflight, k) == Take(inflight, k)

\* The opaque first flight the TLS acceptor writes
TlsFlight == <<22, 3, 3>>

AdmStart(config, client, closes, origin) ==
    [pc |-> "read_hdr", config |-> config,
     client |-> client, closes |-> closes, pos |-> 0,
     cuts |-> 0..Len(client),  \* where a read or a short write may end
     origin |-> origin, opos |-> 0,
     buffer |-> <<>>, needed |-> 0, eof |-> FALSE,
     decided |-> FALSE, parse_kind |-> "", verified |-> FALSE,
     prefix |-> <<>>, acceptorInvoked |-> FALSE, dialed |-> FALSE,
     toOrigin |-> <<>>, toClient |-> <<>>, c2o |-> <<>>, o2c |-> <<>>,
     c2oDone |-> FALSE, o2cDone |-> FALSE,
     result |-> "pending", vlessStarted |-> FALSE,
     clientOpen |-> TRUE,     \* the client's TcpStream has not been dropped
     originOpen |-> FALSE,    \* fallback holds a TcpStream to the origin
     fbError |-> ""]          \* the I/O error met in fallback, if any

\* The end of fallback(), which owns the client's stream and the origin's:
\* both are dropped, and accept then bails with "Reality fallback handled".
\* A mutant first: the stream to the origin stays open.
FallbackReturnKeepsOrigin(a, error) ==
    [a EXCEPT !.pc = "done", !.result = "fallback_handled",
              !.clientOpen = FALSE, !.fbError = error]

FallbackReturn(a, error) ==
    [a EXCEPT !.pc = "done", !.result = "fallback_handled",
              !.clientOpen = FALSE, !.originOpen = FALSE, !.fbError = error]

\* accept returns an error before the decision or from the TLS acceptor:
\* the stream it owns is dropped
AcceptError(a) ==
    [a EXCEPT !.pc = "done", !.result = "error", !.clientOpen = FALSE]

AdmAvail == Len(adm.client) - adm.pos

\* One iteration of the loop of step 1 that reads n > 0 bytes
AdmReadHdr ==
    /\ adm.pc = "read_hdr" /\ AdmAvail > 0
    /\ \E n \in 1..Min(AdmAvail, ChunkSize) :
          /\ adm.pos + n \in adm.cuts
          /\ LET buffer == adm.buffer \o SubSeq(adm.client, adm.pos + 1, adm.pos + n)
             IN  adm' = [adm EXCEPT !.pos = @ + n, !.buffer = buffer,
                                    !.pc = IF Len(buffer) < 5 THEN "read_hdr"
                                           ELSE "read_rec",
                                    !.needed = IF Len(buffer) < 5 THEN 0
                                               ELSE Needed(buffer)]
    /\ UNCHANGED notAdm

\* The read of step 1 returns 0
AdmReadHdrEof ==
    /\ adm.pc = "read_hdr" /\ AdmAvail = 0 /\ adm.closes
    /\ adm' = IF adm.buffer = <<>>
              THEN AcceptError(adm)
              ELSE [adm EXCEPT !.pc = "read_rec", !.needed = Needed(adm.buffer)]
    /\ UNCHANGED notAdm

\* One iteration of the loop of step 3 that reads n > 0 bytes
AdmReadRec ==
    /\ adm.pc = "read_rec" /\ ~adm.eof /\ WantsMore(adm.buffer, adm.needed)
    /\ AdmAvail > 0
    /\ \E n \in 1..Min(AdmAvail, ChunkSize) :
          /\ adm.pos + n \in adm.cuts
          /\ adm' = [adm EXCEPT !.pos = @ + n,
                                !.buffer = @ \o SubSeq(adm.client, adm.pos + 1,
                                                       adm.pos + n)]
    /\ UNCHANGED notAdm

\* The read of step 3 returns 0
AdmReadRecEof ==
    /\ adm.pc = "read_rec" /\ ~adm.eof /\ WantsMore(adm.buffer, adm.needed)
    /\ AdmAvail = 0 /\ adm.closes
    /\ adm' = [adm EXCEPT !.eof = TRUE]
    /\ UNCHANGED notAdm

\* A read of either loop fails: `?` returns the error
AdmReadFail ==
    /\ \/ adm.pc = "read_hdr"
       \/ adm.pc = "read_rec" /\ ~adm.eof /\ WantsMore(adm.buffer, adm.needed)
    /\ adm' = AcceptError(adm)
    /\ UNCHANGED notAdm

\* Lines 120-158: parse, verify, and the branch taken
AdmDecide ==
    /\ adm.pc = "read_rec" /\ (adm.eof \/ ~WantsMore(adm.buffer, adm.needed))
    /\ LET parse_result == ParseClientHello(adm.buffer)
           verified == /\ parse_result.kind = "some"
                       /\ VerifyClientReality(adm.config, parse_result,
                                              adm.buffer).found
       IN  adm' = IF ShouldFallback(adm.config, adm.buffer)
                  THEN [adm EXCEPT !.decided = TRUE,
                                   !.parse_kind = parse_result.kind,
                                   !.verified = verified,
                                   !.prefix = FallbackPrefix(adm.buffer),
                                   !.pc = "fb_connect"]
                  ELSE [adm EXCEPT !.decided = TRUE,
                                   !.parse_kind = parse_result.kind,
                                   !.verified = verified,
                                   !.acceptorInvoked = TRUE,
                                   !.pc = "tls_accept"]
    /\ UNCHANGED notAdm

\* fallback: TcpStream::connect(dest_addr) succeeds
AdmFbConnected ==
    /\ adm.pc = "fb_connect"
    /\ adm' = [adm EXCEPT !.dialed = TRUE, !.originOpen = TRUE,
                          !.pc = "fb_prefix"]
    /\ UNCHANGED notAdm

\* fallback: the connect fails; accept logs it and reports the fallback
AdmFbConnectFail ==
    /\ adm.pc = "fb_connect"
    /\ adm' = [FallbackReturn(adm, "dial") EXCEPT !.dialed = TRUE]
    /\ UNCHANGED notAdm

\* fallback: write_all(prefix) when the prefix is not empty
AdmFbPrefix ==
    /\ adm.pc = "fb_prefix"
    /\ adm' = [adm EXCEPT !.toOrigin = @ \o adm.prefix, !.pc = "fb_copy"]
    /\ UNCHANGED notAdm

\* fallback: write_all(prefix) fails after k bytes
AdmFbPrefixFail ==
    /\ adm.pc = "fb_prefix" /\ adm.prefix # <<>>
    /\ \E k \in adm.cuts \cap 0..(Len(adm.prefix) - 1) :
          adm' = [FallbackReturn(adm, "prefix") EXCEPT
                    !.toOrigin = @ \o Take(adm.prefix, k)]
    /\ UNCHANGED notAdm

\* client_to_dest: a read from the client
AdmFbReadClient ==
    /\ adm.pc = "fb_copy" /\ ~adm.c2oDone /\ AdmAvail > 0
    /\ \E n \in 1..AdmAvail :
          /\ adm.pos + n \in adm.cuts
          /\ adm' = [adm EXCEPT !.pos = @ + n,
                                !.c2o = @ \o SubSeq(adm.client, adm.pos + 1,
                                                    adm.pos + n)]
    /\ UNCHANGED notAdm

\* client_to_dest: a write to the origin
AdmFbWriteOrigin ==
    /\ adm.pc = "fb_copy" /\ ~adm.c2oDone /\ adm.c2o # <<>>
    /\ \E k \in 1..Len(adm.c2o) :
          adm' = [adm EXCEPT !.toOrigin = @ \o CopyWrite(adm.c2o, k),
                             !.c2o = Drop(@, k)]
    /\ UNCHANGED notAdm

\* client_to_dest: the client's end of stream, everything read being written
AdmFbClientEof ==
    /\ adm.pc = "fb_copy" /\ ~adm.c2oDone
    /\ AdmAvail = 0 /\ adm.closes /\ adm.c2o = <<>>
    /\ adm' = [adm EXCEPT !.c2oDone = TRUE]
    /\ UNCHANGED notAdm

\* dest_to_client: a read from the origin
AdmFbReadOrigin ==
    /\ adm.pc = "fb_copy" /\ ~adm.o2cDone
    /\ adm.opos < Len(adm.origin.reply)
    /\ \E n \in 1..(Len(adm.origin.reply) - adm.opos) :
          adm' = [adm EXCEPT !.opos = @ + n,
                             !.o2c = @ \o SubSeq(adm.origin.reply, adm.opos + 1,
                                                 adm.opos + n)]
    /\ UNCHANGED notAdm

\* dest_to_client: a write to the client
AdmFbWriteClient ==
    /\ adm.pc = "fb_copy" /\ ~adm.o2cDone /\ adm.o2c # <<>>
    /\ \E k \in 1..Len(adm.o2c) :
          adm' = [adm EXCEPT !.toClient = @ \o CopyWrite(adm.o2c, k),
                             !.o2c = Drop(@, k)]
    /\ UNCHANGED notAdm

\* dest_to_client: the origin's end of stream
AdmFbOriginEof ==
    /\ adm.pc = "fb_copy" /\ ~adm.o2cDone
    /\ adm.opos = Len(adm.origin.reply) /\ adm.origin.closes /\ adm.o2c = <<>>
    /\ adm' = [adm EXCEPT !.o2cDone = TRUE]
    /\ UNCHANGED notAdm

\* try_join!: either copy fails, the other is dropped; the result is ignored
AdmFbCopyFail ==
    /\ adm.pc = "fb_copy" /\ ~(adm.c2oDone /\ adm.o2cDone)
    /\ adm' = FallbackReturn(adm, "copy")
    /\ UNCHANGED notAdm

\* try_join!: both copies returned
AdmFbJoined ==
    /\ adm.pc = "fb_copy" /\ adm.c2oDone /\ adm.o2cDone
    /\ adm' = FallbackReturn(adm, "")
    /\ UNCHANGED notAdm

\* acceptor.accept(prefixed): the acceptor answers the ClientHello
AdmTlsWrite ==
    /\ adm.pc = "tls_accept" /\ adm.toClient = <<>>
    /\ adm' = [adm EXCEPT !.toClient = TlsFlight]
    /\ UNCHANGED notAdm

\* acceptor.accept(prefixed) returns the stream
AdmTlsOk ==
    /\ adm.pc = "tls_accept" /\ adm.toClient # <<>>
    /\ adm' = [adm EXCEPT !.pc = "vless", !.result = "stream"]
    /\ UNCHANGED notAdm

\* acceptor.accept(prefixed) fails: `?` returns the error
AdmTlsErr ==
    /\ adm.pc = "tls_accept"
    /\ adm' = AcceptError(adm)
    /\ UNCHANGED notAdm

\* handle_client goes on to the VLESS request on the returned stream
AdmVless ==
    /\ adm.pc = "vless"
    /\ adm' = [adm EXCEPT !.pc = "done", !.vlessStarted = TRUE]
    /\ UNCHANGED notAdm

\* Clients: what each sends before it waits for an answer
HelloNonTls == <<72, 101, 108, 108, 111, 32, 110, 111, 110>>
ShortNonTls == <<72, 105, 33>>
RecordFragment == <<22, 3, 1, 0, 20, 1, 2, 3>>
NotClientHello == <<22, 3, 3, 0, 4, 2, 0, 0, 0>>
MalformedHello == <<22, 3, 1, 0, 6, 1, 0, 0, 2, 3, 3>>

AdmClients ==
    { <<>>, HelloNonTls, ShortNonTls, RecordFragment, NotClientHello,
      MalformedHello,
      ClientHelloOf("reality", Key42, Payload("B", Sid8)),
      ClientHelloOf("reality", Key42, Payload("A", Sid8)),
      ClientHelloOf("reality", Key42, Payload("B", SidOther)),
      ClientHelloOf("reality", Key42, Payload("B", Sid8)) \o <<23, 3>>,
      ClientHelloOf("other_server", Key42, Payload("B", Sid8)) \o <<23, 3>>,
      ClientHelloOf("no_key_share", Key42, Payload("B", Sid8)),
      ClientHelloOf("no_session_id", Key42, Payload("B", Sid8)) }

\* The origin of the test: it answers "I am", and closes or stays open
OriginReply == <<73, 32, 97, 109>>

AdmInit ==
    /\ adm \in {AdmStart([private_key |-> Key42, short_ids |-> ids], c, cl,
                         [reply |-> OriginReply, closes |-> oc]) :
                  ids \in {<<Sid8>>, <<>>}, c \in AdmClients,
                  cl \in BOOLEAN, oc \in BOOLEAN}
    /\ addr = Idle /\ vl = Idle /\ au = Idle /\ ver = Idle /\ rq = Idle /\ xh = Idle /\ srv = Idle /\ snf = Idle
    /\ ps = Idle

AdmNext ==
    \/ AdmReadHdr \/ AdmReadHdrEof \/ AdmReadRec \/ AdmReadRecEof \/ AdmReadFail
    \/ AdmDecide
    \/ AdmFbConnected \/ AdmFbConnectFail \/ AdmFbPrefix \/ AdmFbPrefixFail
    \/ AdmFbReadClient \/ AdmFbWriteOrigin \/ AdmFbClientEof
    \/ AdmFbReadOrigin \/ AdmFbWriteClient \/ AdmFbOriginEof
    \/ AdmFbCopyFail \/ AdmFbJoined
    \/ AdmTlsWrite \/ AdmTlsOk \/ AdmTlsErr \/ AdmVless

SpecAdm == AdmInit /\ [][AdmNext]_vars

\* C1: accept ends in one of three outcomes (a stream, the fallback result,
\* an error) and the outcome, once set, stays; a stream comes from the TLS
\* acceptor and the fallback result from a dialed origin; the acceptor is
\* invoked only on a verified ClientHello; acceptor and fallback never both
\* run on one connection; VLESS processing starts only on a returned stream.
C1_ThreeOutcomes ==
    /\ [](/\ adm.pc = "done" => adm.result \in {"stream", "fallback_handled", "error"}
          /\ adm.pc \in {"done", "vless"} <=> adm.result # "pending"
          /\ adm.result = "stream" => adm.acceptorInvoked
          /\ adm.result = "fallback_handled" => adm.dialed
          /\ adm.acceptorInvoked => adm.verified
          /\ ~(adm.acceptorInvoked /\ (adm.dialed \/ adm.toOrigin # <<>>))
          /\ adm.vlessStarted => adm.result = "stream")
    /\ [][adm.result # "pending" => adm'.result = adm.result]_vars

C1_Witness ==
    /\ adm.pc = "done" /\ adm.result = "stream" /\ adm.vlessStarted
    /\ adm.verified /\ adm.acceptorInvoked

\* C2: nothing is written to the client before the admission decision, and
\* on a stream whose first byte is not 0x16 nothing is written to the client
\* before the origin is dialed.
C2_SilentBeforeDecision ==
    /\ ~adm.decided => adm.toClient = <<>>
    /\ (adm.client # <<>> /\ adm.client[1] # 22 /\ adm.toClient # <<>>)
          => adm.dialed

C2_Witness ==
    /\ adm.client # <<>> /\ adm.client[1] # 22
    /\ adm.decided /\ adm.dialed /\ adm.toClient # <<>>
    /\ adm.pos < Len(adm.client)

\* C3: on the fallback path the bytes written to the origin are the bytes
\* read from the client, in order (the captured buffer first), and the bytes
\* written to the client are the bytes read from the origin, in order; when
\* both copies end cleanly nothing that was read is left unwritten.
C3_TransparentPipe ==
    adm.dialed =>
        /\ IsPrefix(adm.toOrigin, Take(adm.client, adm.pos))
        /\ IsPrefix(adm.toClient, Take(adm.origin.reply, adm.opos))
        /\ adm.pc = "fb_copy" =>
              /\ adm.toOrigin \o adm.c2o = Take(adm.client, adm.pos)
              /\ adm.toClient \o adm.o2c = Take(adm.origin.reply, adm.opos)
        /\ (adm.c2oDone /\ adm.o2cDone) =>
              /\ adm.toOrigin = adm.client
              /\ adm.toClient = adm.origin.reply

C3_Witness ==
    /\ adm.pc = "done" /\ adm.c2oDone /\ adm.o2cDone
    /\ Len(adm.buffer) < Len(adm.client)
    /\ adm.toOrigin = adm.client /\ adm.toClient = OriginReply

----------------------------------------------------------------------------
(* The VlessRequest codec exercised: encode, then decode                    *)

\* `self.command as u8`
CommandAsU8(c) == CASE c = "Tcp" -> 1 [] c = "Udp" -> 2 [] OTHER -> 3

\* VlessRequest::encode: the addon length is written as 0
VlessRequestEncode(r) ==
    <<r.version>> \o r.uuid \o <<0>> \o <<CommandAsU8(r.command)>>
    \o AddressEncode(r.address)

Requests ==
    {[version |-> VLESS_VERSION, uuid |-> u, command |-> c, address |-> a] :
        u \in {Uuid1, Uuid2}, c \in {"Tcp", "Udp", "Mux"}, a \in AddrInputs}

\* Bytes that follow the header in the same buffer
Trailers == {<<>>, <<104, 105>>, <<0, 1, 2, 3, 4>>}

\* Addon blocks a client may send
Addons == {<<>>, <<7>>, <<1, 2, 3>>}

RqStart(r, addon, trailer) ==
    [pc |-> "new", request |-> r, addon |-> addon, trailer |-> trailer,
     wire |-> <<>>, decoded |-> NoRequest(<<>>, "")]

\* request.encode(), the payload following in the buffer
RqEncode ==
    /\ rq.pc = "new" /\ rq.addon = <<>>
    /\ rq' = [rq EXCEPT !.pc = "encoded",
                        !.wire = VlessRequestEncode(rq.request) \o rq.trailer]
    /\ UNCHANGED notRq

\* A client's header with an addon block of the announced length
RqClientEncode ==
    /\ rq.pc = "new" /\ rq.addon # <<>>
    /\ rq' = [rq EXCEPT !.pc = "encoded",
                        !.wire = RequestBytes(rq.request.uuid, rq.addon,
                                              CommandAsU8(rq.request.command),
                                              rq.request.address) \o rq.trailer]
    /\ UNCHANGED notRq

\* VlessRequest::decode(&mut buf, &allowed_uuids), both UUIDs allow-listed
RqDecode ==
    /\ rq.pc = "encoded"
    /\ rq' = [rq EXCEPT !.pc = "decoded",
                        !.decoded = VlessRequestDecode(rq.wire, {Uuid1, Uuid2})]
    /\ UNCHANGED notRq

RqInit ==
    /\ rq \in {RqStart(r, ad, t) : r \in Requests, ad \in Addons, t \in Trailers}
    /\ addr = Idle /\ vl = Idle /\ au = Idle /\ ver = Idle /\ adm = Idle
    /\ xh = Idle /\ srv = Idle /\ snf = Idle
    /\ ps = Idle

RqNext == RqEncode \/ RqClientEncode \/ RqDecode

SpecReq == RqInit /\ [][RqNext]_vars

\* C11: decoding an encoded request with an allow-listed UUID succeeds and
\* gives back the version, UUID, command and address, whatever the address
\* and the addon block, and leaves exactly the bytes that followed the header.
C11_RequestRoundTrip ==
    rq.pc = "decoded" =>
        /\ rq.decoded.ok
        /\ rq.decoded.uuid = rq.request.uuid
        /\ rq.decoded.command = rq.request.command
        /\ rq.decoded.address = rq.request.address
        /\ rq.decoded.addon_length = Len(rq.addon)
        /\ rq.decoded.rest = rq.trailer

----------------------------------------------------------------------------
(* network/connection.rs: the relay of a TCP session                        *)
(* (ConnectionManager::handle_connection, ProxyConnection::relay)           *)

\* What one write of copy_bidirectional moves out of its buffer.  A mutant
\* first: the bytes leave in reverse order.
RelayWriteReversed(inflight, k) == [i \in 1..k |-> inflight[k + 1 - i]]

RelayWrite(inflight, k) == Take(inflight, k)

\* client to destination: a read from the client
VlRelayReadClient ==
    /\ vl.pc = "relay" /\ ~vl.c2rDone
    /\ \E c \in vl.cuts :
         /\ vl.pos < c
         /\ vl' = [vl EXCEPT !.pos = c,
                             !.c2r = @ \o SubSeq(vl.stream, vl.pos + 1, c)]
    /\ UNCHANGED notVl

\* client to destination: a write to the destination
VlRelayWriteRemote ==
    /\ vl.pc = "relay" /\ ~vl.c2rDone /\ vl.c2r # <<>>
    /\ \E k \in 1..Len(vl.c2r) :
         vl' = [vl EXCEPT !.toRemote = @ \o RelayWrite(vl.c2r, k),
                          !.c2r = Drop(@, k)]
    /\ UNCHANGED notVl

\* client to destination: end of stream, everything read being written
VlRelayClientEof ==
    /\ vl.pc = "relay" /\ ~vl.c2rDone
    /\ vl.pos = Len(vl.stream) /\ vl.closes /\ vl.c2r = <<>>
    /\ vl' = [vl EXCEPT !.c2rDone = TRUE]
    /\ UNCHANGED notVl

\* destination to client: a read from the destination
VlRelayReadRemote ==
    /\ vl.pc = "relay" /\ ~vl.r2cDone /\ vl.rpos < Len(vl.remote)
    /\ \E n \in 1..(Len(vl.remote) - vl.rpos) :
         vl' = [vl EXCEPT !.rpos = @ + n,
                          !.r2c = @ \o SubSeq(vl.remote, vl.rpos + 1, vl.rpos + n)]
    /\ UNCHANGED notVl

\* destination to client: a write to the client
VlRelayWriteClient ==
    /\ vl.pc = "relay" /\ ~vl.r2cDone /\ vl.r2c # <<>>
    /\ \E k \in 1..Len(vl.r2c) :
         vl' = [vl EXCEPT !.toClient = @ \o RelayWrite(vl.r2c, k),
                          !.r2c = Drop(@, k)]
    /\ UNCHANGED notVl

\* destination to client: end of stream
VlRelayRemoteEof ==
    /\ vl.pc = "relay" /\ ~vl.r2cDone
    /\ vl.rpos = Len(vl.remote) /\ vl.rcloses /\ vl.r2c = <<>>
    /\ vl' = [vl EXCEPT !.r2cDone = TRUE]
    /\ UNCHANGED notVl

\* copy_bidirectional returns Err(e)
VlRelayFail ==
    /\ vl.pc = "relay" /\ ~(vl.c2rDone /\ vl.r2cDone)
    /\ vl' = [VlFinish("io_error") EXCEPT !.ioFailed = TRUE]
    /\ UNCHANGED notVl

\* copy_bidirectional returns Ok
VlRelayDone ==
    /\ vl.pc = "relay" /\ vl.c2rDone /\ vl.r2cDone
    /\ vl' = VlFinish("relayed")
    /\ UNCHANGED notVl


----------------------------------------------------------------------------
(* Relayed sessions: the sessions the drivers carry past the response       *)

\* A TLS ClientHello record of 65 bytes that names a host, and one that
\* carries an ALPN-typed empty extension instead
MiniHello(name) == HandshakeRecord(HelloMessage(ClientRandom, <<>>, SniBytes(name)))
MiniHelloNoSni == HandshakeRecord(HelloMessage(ClientRandom, <<>>, <<0, 16, 0, 0>>))

\* "hello" and "ok!"
PlainPayload == <<104, 101, 108, 108, 111>>
RemoteReply == <<111, 107, 33>>

TcpHeader(a) == RequestBytes(Uuid1, <<>>, 1, a)

\* A client stream and the places where the network may end a delivery:
\* everywhere for the short payload, at the end of the header, inside the
\* ClientHello and at its end for the long ones
TcpSession(a, payload, inner) ==
    LET h == TcpHeader(a)
    IN  [stream |-> h \o payload,
         cuts |-> IF inner = {} THEN 1..(Len(h) + Len(payload))
                  ELSE {Len(h) + i : i \in inner}]

TcpSessions ==
    { TcpSession(Ipv4(<<1, 1, 1, 1>>, 80), PlainPayload, {}),
      TcpSession(Ipv4(<<1, 1, 1, 1>>, 80), <<>>, {}),
      TcpSession(Ipv4(<<1, 1, 1, 1>>, 8443), MiniHello(Www),
                 {0, 20, Len(MiniHello(Www))}),
      TcpSession(Domain(ExampleCom, 443), MiniHello(Www),
                 {0, Len(MiniHello(Www))}),
      TcpSession(Ipv4(<<1, 1, 1, 1>>, 443), MiniHelloNoSni,
                 {0, Len(MiniHelloNoSni)}) }


----------------------------------------------------------------------------
(* The UDP arm of the drivers (handler.rs serve_vless, server.rs            *)
(* handle_client): one socket, send_task and recv_task under select!        *)

\* session_timeout, in minutes, and the last minute the clock is followed to
SessionTimeout == 5
MaxMinutes == 6

\* The size of read_buf and recv_buf
UdpBufCap(driver) == IF driver = "serve_vless" THEN 8192 ELSE 65536

\* [(n >> 8) as u8, (n & 0xff) as u8] followed by the n bytes received
UdpFrame(data) ==
    <<AsU8(Len(data) \div 256), AsU8(Len(data) % 256)>> \o data

Datagram(from, data) == [from |-> from, data |-> data]

\* lookup_host(&request.address.to_string()) and its first address
VlUdpResolve ==
    /\ vl.pc = "udp"
    /\ \E ok \in BOOLEAN :
         vl' = [vl EXCEPT !.initial_target = IF ok THEN vl.request.address ELSE @,
                          !.pc = IF ok THEN "udp_initial" ELSE "done",
                          !.result = IF ok THEN "running" ELSE "dns_error",
                          !.ioFailed = ~ok]
    /\ UNCHANGED notVl

\* The bytes that came with the header: the first frame is sent when buf
\* holds all of it; buf is not looked at again.  Both tasks then start.
VlUdpInitial ==
    /\ vl.pc = "udp_initial"
    /\ LET buf == vl.buf
           len == IF Len(buf) >= 2 THEN U16(buf[1], buf[2]) ELSE 0
           whole == Len(buf) >= 2 /\ Len(buf) >= 2 + len
       IN  vl' = [vl EXCEPT
                    !.sent = IF whole
                             THEN @ \o <<[to |-> vl.initial_target,
                                          data |-> SubSeq(buf, 3, 2 + len)]>>
                             ELSE @,
                    !.last_frame = vl.now,
                    !.send_last = vl.now, !.recv_last = vl.now,
                    !.pc = "udp_loop"]
    /\ UNCHANGED notVl

\* send_task: read_exact(&mut len_buf) completes
VlUdpReadLen ==
    /\ vl.pc = "udp_loop" /\ vl.frame_len = -1
    /\ vl.pos + 2 <= Len(vl.stream)
    /\ LET len == U16(vl.stream[vl.pos + 1], vl.stream[vl.pos + 2])
       IN  IF len = 0 \/ len > UdpBufCap(vl.driver)
           THEN vl' = [VlFinish("udp_bad_length") EXCEPT
                         !.pos = @ + 2, !.send_last = vl.now,
                         !.last_frame = vl.now]
           ELSE vl' = [vl EXCEPT !.pos = @ + 2, !.send_last = vl.now,
                                 !.last_frame = vl.now, !.frame_len = len]
    /\ UNCHANGED notVl

\* send_task: read_exact(&mut read_buf[..len]) completes and the payload is
\* handed to send_to, which may fail
VlUdpReadPayload ==
    /\ vl.pc = "udp_loop" /\ vl.frame_len >= 0
    /\ vl.pos + vl.frame_len <= Len(vl.stream)
    /\ \E ok \in BOOLEAN :
         vl' = [vl EXCEPT
                  !.pos = @ + vl.frame_len, !.frame_len = -1,
                  !.last_frame = vl.now,
                  !.sent = @ \o <<[to |-> vl.initial_target,
                                   data |-> SubSeq(vl.stream, vl.pos + 1,
                                                   vl.pos + vl.frame_len)]>>,
                  !.pc = IF ok THEN "udp_loop" ELSE "done",
                  !.result = IF ok THEN "running" ELSE "io_error",
                  !.ioFailed = ~ok]
    /\ UNCHANGED notVl

\* send_task: a read_exact ends with an error, the client having closed
\* before the bytes it waits for
VlUdpClientEof ==
    /\ vl.pc = "udp_loop" /\ vl.closes
    /\ vl.pos + (IF vl.frame_len = -1 THEN 2 ELSE vl.frame_len) > Len(vl.stream)
    /\ vl' = [VlFinish("udp_client_closed") EXCEPT !.pos = Len(vl.stream)]
    /\ UNCHANGED notVl

\* send_task: the timeout around the read of the length expires
VlUdpSendTimeout ==
    /\ vl.pc = "udp_loop" /\ vl.frame_len = -1
    /\ vl.now - vl.send_last >= SessionTimeout
    /\ vl' = VlFinish("udp_timeout")
    /\ UNCHANGED notVl

\* recv_task: recv_from returns a datagram, which is framed and written
VlUdpRecv ==
    /\ vl.pc = "udp_loop" /\ vl.dnext <= Len(vl.dgrams)
    /\ LET data == Take(vl.dgrams[vl.dnext].data, UdpBufCap(vl.driver))
       IN  IF data = <<>>
           THEN vl' = [VlFinish("udp_empty_datagram") EXCEPT !.dnext = @ + 1]
           ELSE \E ok \in BOOLEAN :
                  vl' = [vl EXCEPT
                           !.dnext = @ + 1,
                           !.recv_last = vl.now, !.last_dgram = vl.now,
                           !.toClient = IF ok THEN @ \o UdpFrame(data) ELSE @,
                           !.pc = IF ok THEN "udp_loop" ELSE "done",
                           !.result = IF ok THEN "running" ELSE "io_error",
                           !.ioFailed = ~ok]
    /\ UNCHANGED notVl

\* recv_task: the timeout around recv_from expires
VlUdpRecvTimeout ==
    /\ vl.pc = "udp_loop"
    /\ vl.now - vl.recv_last >= SessionTimeout
    /\ vl' = VlFinish("udp_timeout")
    /\ UNCHANGED notVl

\* A minute passes; a timeout that is due fires before the next one does
VlUdpTick ==
    /\ vl.pc = "udp_loop" /\ vl.now < MaxMinutes
    /\ vl.now - vl.recv_last < SessionTimeout
    /\ vl.frame_len = -1 => vl.now - vl.send_last < SessionTimeout
    /\ vl' = [vl EXCEPT !.now = @ + 1]
    /\ UNCHANGED notVl

\* The associations the drivers are exercised on: two frames, a frame
\* whose declared length is 8193, no frame, a frame of length zero
UdpHeader == RequestBytes(Uuid1, <<>>, 2, Ipv4(<<8, 8, 8, 8>>, 53))
FrameA == <<0, 3, 0, 1, 5>>
FrameB == <<0, 1, 7>>

UdpSession(payload, inner) ==
    [stream |-> UdpHeader \o payload,
     cuts |-> {Len(UdpHeader) + i : i \in inner}]

UdpSessions ==
    { UdpSession(FrameA \o FrameB, {0, 2, 5, 8}),
      UdpSession(<<32, 1, 1, 2, 3>>, {0}),
      UdpSession(<<>>, {0}),
      UdpSession(<<0, 0>>, {0}) }

PeerA == Ipv4(<<8, 8, 8, 8>>, 53)
PeerB == Ipv4(<<9, 9, 9, 9>>, 5353)

UdpArrivals ==
    { <<>>,
      <<Datagram(PeerA, <<5, 6>>), Datagram(PeerB, <<8>>)>>,
      <<Datagram(PeerA, <<>>), Datagram(PeerA, <<5>>)>> }


----------------------------------------------------------------------------
(* Relayed sessions, TCP and UDP, from the first read to their end          *)

RelayInit ==
    /\ vl \in {[VlStart(d, {Uuid1}, s.stream, cl, sn) EXCEPT
                  !.cuts = s.cuts, !.remote = RemoteReply, !.rcloses = rc] :
                 d \in Drivers, s \in TcpSessions, cl \in BOOLEAN,
                 sn \in BOOLEAN, rc \in BOOLEAN}
           \cup
           {[VlStart(d, {Uuid1}, s.stream, cl, FALSE) EXCEPT
                  !.cuts = s.cuts, !.dgrams = dg] :
                 d \in Drivers, s \in UdpSessions, cl \in BOOLEAN,
                 dg \in UdpArrivals}
    /\ addr = Idle /\ au = Idle /\ ver = Idle /\ adm = Idle /\ rq = Idle /\ xh = Idle /\ srv = Idle /\ snf = Idle
    /\ ps = Idle

RelayNext ==
    \/ VlFirstRead
    \/ VlFirstReadFail
    \/ VlDecode
    \/ VlRespond
    \/ VlDispatchTcp
    \/ VlSniffRead
    \/ VlSniffNoData
    \/ VlSniffFail
    \/ VlDialTcp
    \/ VlSendInitial
    \/ VlSendInitialFail
    \/ VlRelayReadClient
    \/ VlRelayWriteRemote
    \/ VlRelayClientEof
    \/ VlRelayReadRemote
    \/ VlRelayWriteClient
    \/ VlRelayRemoteEof
    \/ VlRelayFail
    \/ VlRelayDone
    \/ VlDispatchUdp
    \/ VlUdpResolve
    \/ VlUdpInitial
    \/ VlUdpReadLen
    \/ VlUdpReadPayload
    \/ VlUdpClientEof
    \/ VlUdpSendTimeout
    \/ VlUdpRecv
    \/ VlUdpRecvTimeout
    \/ VlUdpTick

SpecRelay == RelayInit /\ [][RelayNext]_vars

\* The payload of a session: what the client sent after the request header
ClientPayload == Drop(vl.stream, Len(vl.first) - Len(vl.request.rest))

\* The frames written for a sequence of datagrams
RECURSIVE FramesOf(_)
FramesOf(ds) ==
    IF ds = <<>> THEN <<>> ELSE UdpFrame(ds[1].data) \o FramesOf(Drop(ds, 1))

\* C12: when the request decodes, the first bytes written to the client are
\* 0x00 0x00, once, and no byte from the upstream (TCP data or UDP frame) is
\* read or written before them; what follows them is upstream data only.
C12_ResponseFirst ==
    vl.request.ok =>
        /\ vl.toClient # <<>> => Take(vl.toClient, 2) = <<0, 0>>
        /\ (vl.rpos > 0 \/ vl.dnext > 1) => Take(vl.toClient, 2) = <<0, 0>>
        /\ vl.request.command = "Tcp" =>
             Drop(vl.toClient, 2) = Take(vl.remote, vl.rpos - Len(vl.r2c))
        /\ vl.request.command = "Udp" =>
             \E k \in 0..Len(vl.dgrams) :
                 Drop(vl.toClient, 2) = FramesOf(Take(vl.dgrams, k))
        /\ vl.request.command = "Mux" => Drop(vl.toClient, 2) = <<>>

\* A UDP association wrote the response and then the frames of two datagrams.
C12_Witness ==
    /\ vl.request.ok /\ vl.request.command = "Udp"
    /\ vl.toClient = <<0, 0, 0, 2, 5, 6, 0, 1, 8>>

\* C13: the destination receives the client's payload in order, the bytes
\* read together with the header and before sniffing ahead of the relay's,
\* and neither direction loses, repeats or reorders a byte.
C13_OrderedRelay ==
    (vl.request.ok /\ vl.request.command = "Tcp") =>
        /\ IsPrefix(vl.toRemote, ClientPayload)
        /\ vl.pc = "relay" =>
             /\ IsPrefix(vl.initial_data, vl.toRemote)
             /\ vl.toRemote \o vl.c2r
                  = Take(ClientPayload,
                         Len(ClientPayload) - (Len(vl.stream) - vl.pos))
             /\ vl.toClient \o vl.r2c
                  = VlessResponseBytes \o Take(vl.remote, vl.rpos)
        /\ vl.pc \notin {"relay", "done"} => vl.toRemote = <<>> /\ vl.rpos = 0
        /\ IsPrefix(vl.toClient, VlessResponseBytes \o vl.remote)
        /\ vl.result = "relayed" =>
             /\ vl.toRemote = ClientPayload
             /\ vl.toClient = VlessResponseBytes \o vl.remote

\* A session whose ClientHello came in two deliveries, the first with the
\* header, was relayed to its end in both directions.
C13_Witness ==
    /\ vl.result = "relayed"
    /\ Len(vl.initial_data) = 20
    /\ vl.toRemote = MiniHello(Www)
    /\ vl.toClient = VlessResponseBytes \o RemoteReply

\* C14: the destination dialed is the sniffed host with the requested port
\* when sniffing is enabled and the sniffer finds an SNI, and the requested
\* address otherwise.
C14_DialedDestination ==
    vl.dialed =>
        LET sni == Sniffed(vl.sniffing_enabled, vl.initial_data)
        IN  vl.target = IF sni.kind = "some"
                        THEN Domain(sni.name, vl.request.address.port)
                        ELSE vl.request.address

\* The complete frames at the head of a byte sequence, a frame being a
\* 2-byte big-endian length n >= 1 and n bytes
RECURSIVE ParseFrames(_)
ParseFrames(bytes) ==
    IF Len(bytes) < 2 THEN <<>>
    ELSE LET n == U16(bytes[1], bytes[2])
         IN  IF n = 0 \/ Len(bytes) < 2 + n THEN <<>>
             ELSE <<SubSeq(bytes, 3, 2 + n)>> \o ParseFrames(Drop(bytes, 2 + n))

\* C15: the datagrams sent are the client's frames, one datagram a frame,
\* to initial_target and in order: between two frames, one was sent for
\* every frame read so far; and the frames written to the client are those
\* of the datagrams received, in order.
C15_FramesAndDatagrams ==
    (vl.request.ok /\ vl.request.command = "Udp") =>
        /\ (vl.pc = "udp_loop" /\ vl.frame_len = -1) =>
             LET read == ParseFrames(Take(ClientPayload,
                            Len(ClientPayload) - (Len(vl.stream) - vl.pos)))
             IN  vl.sent = [i \in 1..Len(read) |->
                              [to |-> vl.initial_target, data |-> read[i]]]
        /\ \E k \in 0..Len(vl.dgrams) :
             Drop(vl.toClient, 2) = FramesOf(Take(vl.dgrams, k))

\* C16: an association ends by timeout only when SessionTimeout minutes
\* have passed since the last client frame and since the last datagram.
C16_SharedIdleTimer ==
    vl.result = "udp_timeout" =>
        /\ vl.now - vl.last_frame >= SessionTimeout
        /\ vl.now - vl.last_dgram >= SessionTimeout


----------------------------------------------------------------------------
(* transport/xhttp/h2.rs: the requests of one HTTP/2 connection and the     *)
(* global session table SESSIONS                                            *)

\* "/proxy", "/proxy/abc", "/proxyfoo", "/other"
PathProxy == <<47, 112, 114, 111, 120, 121>>
PathProxyAbc == PathProxy \o <<47, 97, 98, 99>>
PathProxyFoo == PathProxy \o <<102, 111, 111>>
PathOther == <<47, 111, 116, 104, 101, 114>>

\* "Go-http-client", "Go-http-client/2.0", "curl"
GoHttpClient == <<71, 111, 45, 104, 116, 116, 112, 45, 99, 108, 105, 101,
                  110, 116>>
UaGo == GoHttpClient \o <<47, 50, 46, 48>>
UaCurl == <<99, 117, 114, 108>>

\* The number of polls of the table, a sleep of 50 ms after each
PollCount == 10

\* path.starts_with(&config.path)
PathAccepted(path, config_path) == IsPrefix(config_path, path)

\* user_agent.contains("Go-http-client")
IsPc(user_agent) == StrFind(user_agent, GoHttpClient) >= 0

\* tx.send(chunk) on the unbounded channel.  A mutant first: the chunk
\* overtakes the ones that wait.
ChanSendFront(chan, item) == <<item>> \o chan

ChanSend(chan, item) == Append(chan, item)

\* What a VLESS handler writes during a session
HandlerOutput == <<1, 2, 3>>

XhRequest(method, path, user_agent, content_type, body) ==
    [method |-> method, path |-> path, user_agent |-> user_agent,
     content_type |-> content_type,
     body |-> body,             \* body: the DATA chunks, in order
     \* what the VLESS handler spawned for the request writes
     handler_output |-> IF method = "GET" THEN HandlerOutput ELSE <<>>]

\* A request whose handler writes the given bytes
WithOutput(request, bytes) == [request EXCEPT !.handler_output = bytes]

\* A request's task before the request arrives
XhPending ==
    [pc |-> "pending",
     status |-> 0,              \* the status of the response headers sent
     polls |-> 0,               \* POST: sleeps of the pairing loop
     tx |-> 0,                  \* POST: the GET whose sender it holds
     delivered |-> 0,           \* POST: body chunks taken from the stream
     chan |-> <<>>,             \* GET: the channel to_vless, [from, data]
     rxAlive |-> FALSE,         \* GET: to_vless_rx exists
     handlerAlive |-> FALSE,    \* the VLESS handler holds its end of the duplex
     vlessIn |-> <<>>,          \* what the handler can read: [from, data]
     wpos |-> 0,                \* how much of its output the handler wrote
     down |-> <<>>,             \* duplex buffer, handler to client
     bodyOut |-> <<>>,          \* bytes sent on the response body
     bodyEnded |-> FALSE,       \* end of stream was sent on the response body
     is_grpc |-> FALSE,         \* standalone: the framing chosen
     leftover |-> <<>>,         \* standalone, up_task: bytes of a partial message
     dataOut |-> <<>>,          \* standalone: the DATA chunks sent, in order
     trailers |-> "",           \* standalone: the trailers sent
     result |-> "running"]

XhStart(config_path, reqs) ==
    [pc |-> "serving", config_path |-> config_path, reqs |-> reqs,
     st |-> [i \in 1..Len(reqs) |-> XhPending],
     sessions |-> [p \in {reqs[i].path : i \in 1..Len(reqs)} |-> 0],
     handlers |-> {}]           \* the requests a VLESS handler was spawned for

XhReturn(st, status, result) ==
    [st EXCEPT !.pc = "done", !.status = IF status = 0 THEN @ ELSE status,
               !.result = result]

\* handle_request: the path is refused, send_error_response(NOT_FOUND)
XhNotFound(i) ==
    /\ xh.st[i].pc = "pending"
    /\ ~PathAccepted(xh.reqs[i].path, xh.config_path)
    /\ \E ok \in BOOLEAN :
         xh' = [xh EXCEPT !.st[i] = XhReturn(@, IF ok THEN 404 ELSE 0,
                                           IF ok THEN "refused" ELSE "error")]
    /\ UNCHANGED notXh

\* handle_request: neither GET nor POST, send_error_response(METHOD_NOT_ALLOWED)
XhMethodNotAllowed(i) ==
    /\ xh.st[i].pc = "pending"
    /\ PathAccepted(xh.reqs[i].path, xh.config_path)
    /\ xh.reqs[i].method \notin {"GET", "POST"}
    /\ \E ok \in BOOLEAN :
         xh' = [xh EXCEPT !.st[i] = XhReturn(@, IF ok THEN 405 ELSE 0,
                                           IF ok THEN "refused" ELSE "error")]
    /\ UNCHANGED notXh

\* handle_xhttp_get up to send_response: the session is inserted, the
\* handler spawned, the response headers sent; an error there returns
XhGet(i) ==
    /\ xh.st[i].pc = "pending"
    /\ PathAccepted(xh.reqs[i].path, xh.config_path)
    /\ xh.reqs[i].method = "GET"
    /\ \E ok \in BOOLEAN :
         xh' = [xh EXCEPT
                  !.sessions[xh.reqs[i].path] = i,
                  !.handlers = @ \cup {i},
                  !.st[i] = IF ok
                            THEN [@ EXCEPT !.pc = "get", !.status = 200,
                                           !.rxAlive = TRUE,
                                           !.handlerAlive = TRUE]
                            ELSE [XhReturn(@, 0, "error") EXCEPT
                                           !.handlerAlive = TRUE]]
    /\ UNCHANGED notXh

\* "grpc" and "application/grpc", "application/octet-stream"
Grpc == <<103, 114, 112, 99>>
CtGrpc == <<97, 112, 112, 108, 105, 99, 97, 116, 105, 111, 110, 47>> \o Grpc
CtOctet == <<97, 112, 112, 108, 105, 99, 97, 116, 105, 111, 110, 47, 111, 99,
             116, 101, 116, 45, 115, 116, 114, 101, 97, 109>>

\* content_type.contains("grpc") && !is_pc
IsGrpc(content_type, user_agent) ==
    StrFind(content_type, Grpc) >= 0 /\ ~IsPc(user_agent)

\* handle_standalone up to the spawn of the handler
XhStandaloneStart(st, i, ok) ==
    IF ok THEN [st EXCEPT !.pc = "standalone", !.status = 200,
                          !.handlerAlive = TRUE,
                          !.is_grpc = IsGrpc(xh.reqs[i].content_type,
                                             xh.reqs[i].user_agent)]
    ELSE XhReturn(st, 0, "error")

\* The lookup after the pairing loop: handle_xhttp_post with the session's
\* sender, or handle_standalone
XhLookup(i, polls, ok) ==
    LET g == xh.sessions[xh.reqs[i].path]
        st == [xh.st[i] EXCEPT !.polls = polls]
    IN  IF g # 0
        THEN [xh EXCEPT !.st[i] = [st EXCEPT !.pc = "post", !.tx = g]]
        ELSE [xh EXCEPT !.st[i] = XhStandaloneStart(st, i, ok),
                        !.handlers = IF ok THEN @ \cup {i} ELSE @]

\* handle_request for a POST, to its first await: the first poll of the
\* pairing loop, which a Go-http-client skips
XhPost(i) ==
    /\ xh.st[i].pc = "pending"
    /\ PathAccepted(xh.reqs[i].path, xh.config_path)
    /\ xh.reqs[i].method = "POST"
    /\ \E ok \in BOOLEAN :
         xh' = IF IsPc(xh.reqs[i].user_agent)
                  \/ xh.sessions[xh.reqs[i].path] # 0
               THEN XhLookup(i, 0, ok)
               ELSE [xh EXCEPT !.st[i].pc = "sleep", !.st[i].polls = 1]
    /\ UNCHANGED notXh

\* A sleep of the pairing loop ends: the next poll, or after the last one
\* the lookup
XhPostWake(i) ==
    /\ xh.st[i].pc = "sleep"
    /\ \E ok \in BOOLEAN :
         xh' = IF xh.st[i].polls = PollCount
                  \/ xh.sessions[xh.reqs[i].path] # 0
               THEN XhLookup(i, xh.st[i].polls, ok)
               ELSE [xh EXCEPT !.st[i].polls = @ + 1]
    /\ UNCHANGED notXh

\* handle_xhttp_post: a body chunk arrives and is sent on the channel
XhPostChunk(i) ==
    /\ xh.st[i].pc = "post"
    /\ xh.st[i].delivered < Len(xh.reqs[i].body)
    /\ LET g == xh.st[i].tx
           item == [from |-> i,
                    data |-> xh.reqs[i].body[xh.st[i].delivered + 1]]
       IN  xh' = [xh EXCEPT
                    !.st[i].delivered = @ + 1,
                    !.st[g].chan = IF xh.st[g].rxAlive THEN ChanSend(@, item)
                                   ELSE @]
    /\ UNCHANGED notXh

\* handle_xhttp_post: the body ends and the response is sent, or the body
\* fails
XhPostEnd(i) ==
    /\ xh.st[i].pc = "post"
    /\ \/ /\ xh.st[i].delivered = Len(xh.reqs[i].body)
          /\ \E ok \in BOOLEAN :
               xh' = [xh EXCEPT !.st[i] = XhReturn(@, IF ok THEN 200 ELSE 0,
                                            IF ok THEN "posted" ELSE "error")]
       \/ xh' = [xh EXCEPT !.st[i] = XhReturn(@, 0, "error")]
    /\ UNCHANGED notXh

\* u32::from_be_bytes and (n as u32).to_be_bytes()
U32(b1, b2, b3, b4) == ((b1 * 256 + b2) * 256 + b3) * 256 + b4
PutU32(v) == <<(v \div 16777216) % 256, (v \div 65536) % 256,
               (v \div 256) % 256, v % 256>>

\* up_task, the inner loop: while leftover holds a whole message its 5-byte
\* header is split off and its payload written; what remains is kept
RECURSIVE GrpcUnframe(_)
GrpcUnframe(leftover) ==
    IF Len(leftover) < 5 THEN [msgs |-> <<>>, rest |-> leftover]
    ELSE LET msg_len == U32(leftover[2], leftover[3], leftover[4], leftover[5])
         IN  IF Len(leftover) >= 5 + msg_len
             THEN LET more == GrpcUnframe(Drop(leftover, 5 + msg_len))
                  IN  [msgs |-> <<SubSeq(leftover, 6, 5 + msg_len)>> \o more.msgs,
                       rest |-> more.rest]
             ELSE [msgs |-> <<>>, rest |-> leftover]

\* down_task: the frame of n bytes read from the handler.  A mutant first:
\* the length takes two bytes.
GrpcFrameShortLength(data) == <<0>> \o PutU16(Len(data)) \o data

GrpcFrame(data) == <<0>> \o PutU32(Len(data)) \o data

\* handle_standalone, up_task: a body chunk is written to the handler, as
\* it is or message by message
XhStandaloneChunk(i) ==
    /\ xh.st[i].pc = "standalone" /\ xh.st[i].handlerAlive
    /\ xh.st[i].delivered < Len(xh.reqs[i].body)
    /\ LET chunk == xh.reqs[i].body[xh.st[i].delivered + 1]
           un == GrpcUnframe(xh.st[i].leftover \o chunk)
       IN  xh' = IF xh.st[i].is_grpc
                 THEN [xh EXCEPT
                         !.st[i].delivered = @ + 1,
                         !.st[i].leftover = un.rest,
                         !.st[i].vlessIn =
                             @ \o [k \in 1..Len(un.msgs) |->
                                      [from |-> i, data |-> un.msgs[k]]]]
                 ELSE [xh EXCEPT
                         !.st[i].delivered = @ + 1,
                         !.st[i].vlessIn = Append(@, [from |-> i, data |-> chunk])]
    /\ UNCHANGED notXh

\* handle_standalone, down_task: n bytes are read from the duplex and sent
\* as one DATA chunk, framed or not; the task ends when send_data fails
XhStandaloneDown(i) ==
    /\ xh.st[i].pc = "standalone" /\ xh.st[i].down # <<>>
    /\ \E n \in 1..Len(xh.st[i].down), ok \in BOOLEAN :
         LET data == Take(xh.st[i].down, n)
         IN  xh' = IF ok
                   THEN [xh EXCEPT
                           !.st[i].dataOut =
                               Append(@, IF xh.st[i].is_grpc THEN GrpcFrame(data)
                                         ELSE data),
                           !.st[i].down = Drop(@, n)]
                   ELSE [xh EXCEPT !.st[i] = XhReturn(@, 0, "error")]
    /\ UNCHANGED notXh

\* handle_standalone, down_task: the read returns 0; the trailers
\* grpc-status: 0 or an empty last DATA chunk end the response
XhStandaloneEnd(i) ==
    /\ xh.st[i].pc = "standalone"
    /\ xh.st[i].down = <<>> /\ ~xh.st[i].handlerAlive
    /\ \E ok \in BOOLEAN :
         xh' = [xh EXCEPT !.st[i] =
                  IF ~ok THEN XhReturn(@, 0, "error")
                  ELSE IF xh.st[i].is_grpc
                  THEN [XhReturn(@, 0, "closed") EXCEPT
                          !.trailers = "grpc-status: 0"]
                  ELSE [XhReturn(@, 0, "closed") EXCEPT !.bodyEnded = TRUE]]
    /\ UNCHANGED notXh

\* handle_xhttp_get, upstream task: a chunk leaves the channel and is
\* written to the handler; the task ends when the write fails
XhUpstream(g) ==
    /\ xh.st[g].rxAlive /\ xh.st[g].chan # <<>>
    /\ xh' = IF xh.st[g].handlerAlive
             THEN [xh EXCEPT !.st[g].vlessIn = Append(@, Head(xh.st[g].chan)),
                             !.st[g].chan = Tail(@)]
             ELSE [xh EXCEPT !.st[g].rxAlive = FALSE, !.st[g].chan = <<>>]
    /\ UNCHANGED notXh

\* The VLESS handler writes to its end of the duplex
XhVlessWrite(g) ==
    /\ xh.st[g].pc \in {"get", "standalone"} /\ xh.st[g].handlerAlive
    /\ xh.st[g].wpos < Len(xh.reqs[g].handler_output)
    /\ \E n \in 1..(Len(xh.reqs[g].handler_output) - xh.st[g].wpos) :
         xh' = [xh EXCEPT
                  !.st[g].wpos = @ + n,
                  !.st[g].down = @ \o SubSeq(xh.reqs[g].handler_output,
                                             xh.st[g].wpos + 1,
                                             xh.st[g].wpos + n)]
    /\ UNCHANGED notXh

\* The VLESS handler returns and drops its end of the duplex
XhVlessClose(g) ==
    /\ xh.st[g].pc \in {"get", "standalone"} /\ xh.st[g].handlerAlive
    /\ xh' = [xh EXCEPT !.st[g].handlerAlive = FALSE]
    /\ UNCHANGED notXh

\* The exit of handle_xhttp_get: sessions.remove(&path), notify_waiters
XhGetExit(g, result) ==
    [xh EXCEPT !.sessions[xh.reqs[g].path] = 0,
               !.st[g] = XhReturn(@, 0, result)]

\* handle_xhttp_get, downstream: n bytes are read from the duplex and sent
\* as one DATA chunk; the loop ends when send_data fails
XhDownstream(g) ==
    /\ xh.st[g].pc = "get" /\ xh.st[g].down # <<>>
    /\ \E n \in 1..Len(xh.st[g].down), ok \in BOOLEAN :
         xh' = IF ok
               THEN [xh EXCEPT !.st[g].bodyOut = @ \o Take(xh.st[g].down, n),
                               !.st[g].down = Drop(@, n)]
               ELSE XhGetExit(g, "reset")
    /\ UNCHANGED notXh

\* handle_xhttp_get, downstream: the read returns 0, the body is ended
XhGetEnd(g) ==
    /\ xh.st[g].pc = "get" /\ xh.st[g].down = <<>> /\ ~xh.st[g].handlerAlive
    /\ \E ok \in BOOLEAN :
         xh' = [XhGetExit(g, "closed") EXCEPT !.st[g].bodyEnded = ok]
    /\ UNCHANGED notXh

\* The connections the handler is exercised on: the requests of each, which
\* arrive in any order
XhBody == << <<10, 11>>, <<12>> >>

\* Two gRPC messages, the second with its flag byte set, and the ways to
\* cut a byte stream into at most three DATA chunks
GrpcStream == <<0, 0, 0, 0, 2, 10, 11>> \o <<1, 0, 0, 0, 1, 12>>

ChunkSplits(bytes) ==
    {<<bytes>>}
    \cup {<<Take(bytes, a), Drop(bytes, a)>> : a \in 1..(Len(bytes) - 1)}
    \cup {<<Take(bytes, c[1]), SubSeq(bytes, c[1] + 1, c[2]), Drop(bytes, c[2])>> :
            c \in {d \in (1..(Len(bytes) - 1)) \X (1..(Len(bytes) - 1)) :
                      d[1] < d[2]}}

XhConnections ==
    { <<XhRequest("GET", PathProxyAbc, UaCurl, <<>>, <<>>),
        XhRequest("POST", PathProxyAbc, UaCurl, CtOctet, XhBody)>>,
      <<XhRequest("GET", PathProxyAbc, UaGo, <<>>, <<>>),
        XhRequest("POST", PathProxyAbc, UaGo, CtOctet, XhBody)>>,
      <<XhRequest("GET", PathProxy, UaCurl, <<>>, <<>>),
        XhRequest("POST", PathProxy, <<>>, <<>>, XhBody),
        XhRequest("POST", PathProxy, UaGo, CtOctet, << <<20>> >>)>>,
      <<XhRequest("GET", PathProxyFoo, UaCurl, <<>>, <<>>),
        XhRequest("POST", PathProxyFoo, UaCurl, CtOctet, XhBody)>>,
      <<XhRequest("GET", PathOther, UaCurl, <<>>, <<>>),
        XhRequest("PUT", PathProxy, UaCurl, CtOctet, XhBody)>>,
      <<XhRequest("GET", PathProxyAbc, UaCurl, <<>>, <<>>),
        XhRequest("GET", PathProxyAbc, UaCurl, <<>>, <<>>)>>,
      <<WithOutput(XhRequest("POST", PathProxy, UaGo, CtGrpc, <<GrpcStream>>),
                   HandlerOutput)>>,
      <<WithOutput(XhRequest("POST", PathProxy, UaCurl, CtOctet, XhBody),
                   HandlerOutput)>> }
    \cup { <<WithOutput(XhRequest("POST", PathProxy, UaCurl, CtGrpc, body),
                        HandlerOutput)>> :
             body \in ChunkSplits(GrpcStream) }

XhInit ==
    /\ xh \in {XhStart(PathProxy, reqs) : reqs \in XhConnections}
    /\ addr = Idle /\ vl = Idle /\ au = Idle /\ ver = Idle /\ adm = Idle
    /\ rq = Idle /\ srv = Idle /\ snf = Idle
    /\ ps = Idle

XhNext ==
    \E i \in 1..Len(xh.reqs) :
        \/ XhNotFound(i)
        \/ XhMethodNotAllowed(i)
        \/ XhGet(i)
        \/ XhPost(i)
        \/ XhPostWake(i)
        \/ XhPostChunk(i)
        \/ XhPostEnd(i)
        \/ XhStandaloneChunk(i)
        \/ XhStandaloneDown(i)
        \/ XhStandaloneEnd(i)
        \/ XhUpstream(i)
        \/ XhVlessWrite(i)
        \/ XhVlessClose(i)
        \/ XhDownstream(i)
        \/ XhGetEnd(i)

SpecXhttp == XhInit /\ [][XhNext]_vars


XhIds == 1..Len(xh.reqs)
XhGets == {g \in XhIds : xh.reqs[g].method = "GET"}
XhPosts == {i \in XhIds : xh.reqs[i].method = "POST"}

\* The chunks of request i among a sequence of [from, data] items
ChunksFrom(items, i) ==
    LET mine == SelectSeq(items, LAMBDA it : it.from = i)
    IN  [k \in 1..Len(mine) |-> mine[k].data]

C18_PairingWindow ==
    xh.pc = "serving" =>
      \A i \in XhPosts :
        /\ xh.st[i].polls <= PollCount
        /\ (i \in xh.handlers \/ xh.st[i].pc = "standalone") =>
             xh.st[i].polls = PollCount

\* C19: when handle_xhttp_get has returned the table holds no entry of that
\* GET, an entry belongs to a GET that is being served, and no POST owns one.
C19_NoLeak ==
    xh.pc = "serving" =>
      /\ \A g \in XhGets :
           xh.st[g].pc = "done" => xh.sessions[xh.reqs[g].path] # g
      /\ \A p \in DOMAIN xh.sessions :
           xh.sessions[p] # 0 =>
             /\ xh.sessions[p] \in XhGets
             /\ xh.st[xh.sessions[p]].pc = "get"

\* The path is the configured path, or the configured path, '/' and a token
PathExact(path, config_path) ==
    \/ path = config_path
    \/ /\ IsPrefix(config_path \o <<47>>, path)
       /\ Len(path) > Len(config_path) + 1

\* C20: only a request whose path is the configured path or that path, '/'
\* and a token is served; any other gets 404, creates no session and no
\* VLESS handler.
C20_ExactPath ==
    xh.pc = "serving" =>
      \A i \in XhIds :
        ~PathExact(xh.reqs[i].path, xh.config_path) =>
          /\ xh.st[i].status \in {0, 404}
          /\ i \notin xh.handlers
          /\ xh.sessions[xh.reqs[i].path] # i
          /\ xh.st[i].pc \in {"pending", "done"}


\* The requests handled by handle_standalone
XhStandalones == {i \in XhPosts : i \in xh.handlers}

\* C21: a standalone POST is gRPC-framed exactly when its content-type
\* contains "grpc", whatever its other headers.
C21_FramingByContentType ==
    xh.pc = "serving" =>
      \A i \in XhStandalones :
          xh.st[i].is_grpc <=> StrFind(xh.reqs[i].content_type, Grpc) >= 0

\* The bytes of a sequence of chunks
RECURSIVE Flatten(_)
Flatten(chunks) ==
    IF chunks = <<>> THEN <<>> ELSE chunks[1] \o Flatten(Drop(chunks, 1))

\* The payloads of the whole gRPC messages (1 flag byte, 4-byte big-endian
\* length, payload) at the head of a byte sequence, concatenated
RECURSIVE GrpcPayloads(_)
GrpcPayloads(bytes) ==
    IF Len(bytes) < 5 THEN <<>>
    ELSE LET n == U32(bytes[2], bytes[3], bytes[4], bytes[5])
         IN  IF Len(bytes) < 5 + n THEN <<>>
             ELSE SubSeq(bytes, 6, 5 + n) \o GrpcPayloads(Drop(bytes, 5 + n))

\* C22: in the gRPC standalone handler the bytes written to the VLESS side
\* are the payloads of the messages received so far, in order, however the
\* body was cut into chunks; every DATA chunk sent is one frame 0x00, n as
\* four big-endian bytes and the n bytes read from the VLESS side, in order;
\* a response that ended at the handler's EOF carries grpc-status: 0.
C22_GrpcFraming ==
    xh.pc = "serving" =>
      \A i \in XhStandalones :
        xh.st[i].is_grpc =>
          /\ Flatten([k \in 1..Len(xh.st[i].vlessIn) |-> xh.st[i].vlessIn[k].data])
               = GrpcPayloads(Flatten(Take(xh.reqs[i].body, xh.st[i].delivered)))
          /\ \A k \in 1..Len(xh.st[i].dataOut) :
               LET f == xh.st[i].dataOut[k]
               IN  /\ Len(f) > 5
                   /\ Take(f, 5) = <<0, 0, 0, 0, Len(f) - 5>>
          /\ Flatten([k \in 1..Len(xh.st[i].dataOut) |-> Drop(xh.st[i].dataOut[k], 5)])
               \o xh.st[i].down
               = Take(xh.reqs[i].handler_output, xh.st[i].wpos)
          /\ xh.st[i].result = "closed" =>
               /\ xh.st[i].trailers = "grpc-status: 0"
               /\ xh.st[i].down = <<>>
               /\ ~xh.st[i].bodyEnded

\* A body whose first chunk ends inside the first header and whose second
\* ends inside the second payload was unwrapped to both payloads, and the
\* response carried two frames and the trailers.
C22_Witness ==
    /\ xh.pc = "serving"
    /\ \E i \in XhStandalones :
         /\ xh.st[i].is_grpc
         /\ Len(xh.reqs[i].body) = 3 /\ Len(xh.reqs[i].body[1]) = 3
         /\ Len(xh.reqs[i].body[3]) = 1
         /\ Flatten([k \in 1..Len(xh.st[i].vlessIn) |-> xh.st[i].vlessIn[k].data])
              = <<10, 11, 12>>
         /\ xh.st[i].dataOut = <<<<0, 0, 0, 0, 2, 1, 2>>, <<0, 0, 0, 0, 1, 3>>>>
         /\ xh.st[i].trailers = "grpc-status: 0"


----------------------------------------------------------------------------
(* protocol/sniffer.rs exercised on byte strings                            *)

\* A server_name extension around a list, and an entry of a list
SniExtensionOf(list) ==
    <<0, 0>> \o PutU16(Len(list) + 2) \o PutU16(Len(list)) \o list
NameEntry(name_type, name) == <<name_type>> \o PutU16(Len(name)) \o name

HelloWith(exts) == HandshakeRecord(HelloMessage(ClientRandom, <<>>, exts))

\* An extension of type 16 with four bytes
OtherExtension == <<0, 16, 0, 4, 0, 2, 104, 50>>

\* ClientHellos: a host name; no server_name extension; a server_name
\* extension, the last one, whose list holds an entry of another type, a
\* name that is not UTF-8, nothing; the same followed by another extension;
\* a name after an entry of another type; a name length past the end
SniffHellos ==
    { MiniHello(Www),
      MiniHelloNoSni,
      HelloWith(SniExtensionOf(NameEntry(1, Www))),
      HelloWith(SniExtensionOf(NameEntry(0, <<255, 254>>))),
      HelloWith(SniExtensionOf(<<>>)),
      HelloWith(SniExtensionOf(NameEntry(1, Www)) \o OtherExtension),
      HelloWith(OtherExtension \o SniExtensionOf(NameEntry(1, Www))),
      HelloWith(SniExtensionOf(NameEntry(1, <<120>>) \o NameEntry(0, Www))),
      HelloWith(OtherExtension \o SniBytes(Www)),
      HelloWith(<<0, 0, 0, 6, 0, 4, 0, 0, 9, 119>>),
      HelloWith(<<0, 0, 0, 1, 7>>) }

\* The byte strings: every prefix of every ClientHello, and a record that
\* is not a handshake
SniffInputs ==
    UNION {{Take(h, n) : n \in 0..Len(h)} : h \in SniffHellos}
    \cup {[i \in 1..40 |-> 23]}

SnfInit ==
    /\ snf \in {[pc |-> "start", data |-> d, result |-> SniffNone] :
                  d \in SniffInputs}
    /\ addr = Idle /\ vl = Idle /\ au = Idle /\ ver = Idle /\ adm = Idle
    /\ rq = Idle /\ xh = Idle /\ srv = Idle
    /\ ps = Idle

\* sniff_tls_sni(&data)
SnfSniff ==
    /\ snf.pc = "start"
    /\ snf' = [snf EXCEPT !.pc = "sniffed", !.result = SniffTlsSni(snf.data)]
    /\ UNCHANGED notSnf

SnfNext == SnfSniff

SpecSniff == SnfInit /\ [][SnfNext]_vars

\* C28: sniff_tls_sni returns Some(name) or None for every byte string, and
\* never panics.
C28_SniffTotal ==
    snf.pc = "sniffed" => snf.result.kind \in {"some", "none"}


----------------------------------------------------------------------------
(* The wait for the VLESS request                                           *)

\* C25: a driver gives up the wait for the request only when nothing has
\* arrived within 30 s, and then it has written nothing to the client and
\* opened no upstream.
C25_RequestWait ==
    vl.result = "timeout" =>
        /\ \/ vl.stream = <<>> /\ ~vl.closes
           \/ vl.arrives >= 30
        /\ vl.toClient = <<>>
        /\ ~vl.dialed /\ ~vl.udpBound


----------------------------------------------------------------------------
(* The end of the fallback splice                                           *)

\* C26: once either direction of the splice has reached its end of stream,
\* the next step of the fallback is its end: nothing more is copied in the
\* other direction.
C26_EndsOnFirstClose ==
    [][(adm.pc = "fb_copy" /\ (adm.c2oDone \/ adm.o2cDone))
         => adm'.pc = "done"]_vars

\* C27: an I/O error on the fallback path leaves both sockets closed, the
\* client having received nothing but bytes of the origin, the TLS acceptor
\* not invoked, and accept reporting the fallback as handled.
C27_FallbackErrors ==
    adm.fbError # "" =>
        /\ adm.pc = "done"
        /\ ~adm.clientOpen /\ ~adm.originOpen
        /\ IsPrefix(adm.toClient, adm.origin.reply)
        /\ adm.fbError \in {"dial", "prefix"} => adm.toClient = <<>>
        /\ ~adm.acceptorInvoked
        /\ adm.result = "fallback_handled"

\* A copy failed after the origin had been dialed and part of its reply
\* had reached the client.
C27_Witness ==
    /\ adm.fbError = "copy" /\ adm.dialed
    /\ adm.toClient # <<>> /\ adm.toClient # adm.origin.reply


----------------------------------------------------------------------------
(* The accept loop of an inbound and its per-connection tasks               *)
(* (Server::run_inbound, Server::handle_client,                             *)
(* ConnectionManager::handle_connection).  The admission, the codec and     *)
(* the relay are modelled in detail above; here each has its outcomes only. *)

\* connections the listener hands out in one behaviour
MaxConns == 3

\* accept() failures in one behaviour
MaxAcceptErrors == 2

ConnIds == 1..MaxConns

\* A connection before it is accepted.  codecOn says which stream
\* decode_request has read from; relay is the task spawned by
\* handle_connection.
NoTask ==
    [pc |-> "none", result |-> "", codecOn |-> "none", relay |-> "none"]

SrvStart(reality, xhttp) ==
    [pc |-> "inbound",
     reality |-> reality,    \* realitySettings present: reality_server is Some
     xhttp |-> xhttp,        \* xhttpSettings present: _xhttp_server is Some
     loop |-> "running", accepted |-> 0, acceptErrors |-> 0,
     tasks |-> [i \in ConnIds |-> NoTask],
     active |-> 0]           \* ConnectionManager::active_connections

\* The Err arm of the accept loop: the error is logged and the loop goes
\* on.  A mutant first: the loop ends.
AcceptFailedStops(loop) == "stopped"

AcceptFailed(loop) == loop

\* fetch_sub when the relay task ends, whatever relay() returned.  A mutant
\* first: a relay that failed leaves the counter alone.
CounterAfterRelaySkipsError(count, outcome) ==
    IF outcome = "error" THEN count ELSE count - 1

CounterAfterRelay(count, outcome) == count - 1

\* handle_client returns: Err is logged by the spawned task, which ends
TaskEnd(task, result) == [task EXCEPT !.pc = "ended", !.result = result]

SrvTaskIs(i, pc) == srv.pc = "inbound" /\ srv.tasks[i].pc = pc

\* listener.accept() yields a connection; its task is spawned
SrvAccept ==
    /\ srv.pc = "inbound" /\ srv.loop = "running"
    /\ srv.accepted < MaxConns
    /\ srv' = [srv EXCEPT !.accepted = @ + 1,
                          !.tasks[srv.accepted + 1].pc =
                              IF srv.reality THEN "admission" ELSE "read"]
    /\ UNCHANGED notSrv

SrvAcceptFail ==
    /\ srv.pc = "inbound" /\ srv.loop = "running"
    /\ srv.acceptErrors < MaxAcceptErrors
    /\ srv' = [srv EXCEPT !.acceptErrors = @ + 1, !.loop = AcceptFailed(@)]
    /\ UNCHANGED notSrv

\* reality.accept(stream) returns the TLS stream
SrvAdmitted(i) ==
    /\ SrvTaskIs(i, "admission")
    /\ srv' = [srv EXCEPT !.tasks[i].pc = "read"]
    /\ UNCHANGED notSrv

\* reality.accept(stream) fails (fallback handled, handshake error)
SrvAdmissionFail(i) ==
    /\ SrvTaskIs(i, "admission")
    /\ srv' = [srv EXCEPT !.tasks[i] = TaskEnd(@, "error")]
    /\ UNCHANGED notSrv

\* the first read returns bytes and decode_request reads them from the
\* stream handle_client holds; the request decodes or not
SrvDecode(i) ==
    /\ SrvTaskIs(i, "read")
    /\ \E ok \in BOOLEAN :
          srv' = [srv EXCEPT !.tasks[i] =
                    IF ok THEN [@ EXCEPT !.pc = "dial", !.codecOn = "stream"]
                    ELSE [TaskEnd(@, "error") EXCEPT !.codecOn = "stream"]]
    /\ UNCHANGED notSrv

\* the first read returns 0 (Ok), fails or times out (Err)
SrvReadEnd(i) ==
    /\ SrvTaskIs(i, "read")
    /\ \E result \in {"ok", "error"} :
          srv' = [srv EXCEPT !.tasks[i] = TaskEnd(@, result)]
    /\ UNCHANGED notSrv

\* the response write or the dial fails
SrvDialFail(i) ==
    /\ SrvTaskIs(i, "dial")
    /\ srv' = [srv EXCEPT !.tasks[i] = TaskEnd(@, "error")]
    /\ UNCHANGED notSrv

\* the dial succeeds; handle_connection counts the session, spawns the
\* relay task and returns Ok, and so does handle_client
SrvHandleConnection(i) ==
    /\ SrvTaskIs(i, "dial")
    /\ srv' = [srv EXCEPT !.active = @ + 1,
                          !.tasks[i] = [TaskEnd(@, "ok") EXCEPT
                                            !.relay = "running"]]
    /\ UNCHANGED notSrv

\* relay() returns in the spawned task
SrvRelayEnd(i) ==
    /\ srv.pc = "inbound" /\ srv.tasks[i].relay = "running"
    /\ \E outcome \in {"ok", "error"} :
          srv' = [srv EXCEPT !.tasks[i].relay = outcome,
                             !.active = CounterAfterRelay(@, outcome)]
    /\ UNCHANGED notSrv

SrvInit ==
    /\ srv \in {SrvStart(reality, xhttp) : reality \in BOOLEAN, xhttp \in BOOLEAN}
    /\ addr = Idle /\ vl = Idle /\ au = Idle /\ ver = Idle /\ adm = Idle
    /\ rq = Idle /\ xh = Idle /\ snf = Idle
    /\ ps = Idle

SrvNext ==
    \/ SrvAccept
    \/ SrvAcceptFail
    \/ \E i \in ConnIds :
          \/ SrvAdmitted(i)
          \/ SrvAdmissionFail(i)
          \/ SrvDecode(i)
          \/ SrvReadEnd(i)
          \/ SrvDialFail(i)
          \/ SrvHandleConnection(i)
          \/ SrvRelayEnd(i)

SpecInbound == SrvInit /\ [][SrvNext]_vars

RelaysRunning == {i \in ConnIds : srv.tasks[i].relay = "running"}

AllEnded ==
    /\ srv.accepted = MaxConns
    /\ \A i \in ConnIds : srv.tasks[i].pc = "ended" /\ srv.tasks[i].relay # "running"

\* C23: the counter of active connections is the number of relay tasks
\* started and not yet finished: never negative, and 0 once every session
\* has ended, whatever the interleaving and however the relays ended.
C23_ActiveCount ==
    srv.pc = "inbound" =>
        /\ srv.active = Cardinality(RelaysRunning)
        /\ srv.active >= 0
        /\ AllEnded => srv.active = 0

\* Two relays run concurrently after a third has ended with an I/O error.
C23_Witness ==
    /\ srv.pc = "inbound" /\ srv.active = 2
    /\ \E i \in ConnIds : srv.tasks[i].relay = "error"

TasksChanged == {i \in ConnIds : srv'.tasks[i] # srv.tasks[i]}

\* C29: no step stops the accept loop, whether a failed accept() or the
\* failure of a connection's task, and a step of one connection's task
\* leaves every other connection's task as it was.
C29_FailuresContained ==
    [][srv.pc = "inbound" =>
         /\ srv'.loop = "running"
         /\ Cardinality(TasksChanged) <= 1]_vars

\* A connection is accepted and relayed after accept() failed and an
\* earlier connection's task ended with an error.
C29_Witness ==
    /\ srv.pc = "inbound" /\ srv.acceptErrors > 0
    /\ \E i, j \in ConnIds :
          /\ i < j
          /\ srv.tasks[i].result = "error"
          /\ srv.tasks[j].relay = "running"

\* C30: with xhttpSettings the codec runs on the binder's duplex streams
\* only; without them it runs on the admitted stream.
C30_BinderInPath ==
    srv.pc = "inbound" =>
        \A i \in ConnIds :
            srv.tasks[i].codecOn # "none" =>
                srv.tasks[i].codecOn = (IF srv.xhttp THEN "duplex" ELSE "stream")


----------------------------------------------------------------------------
(* The load of the accept loop: how many accepted connections are being     *)
(* handled at once.  The loop of run_inbound accepts and spawns; nothing    *)
(* in it waits for an earlier task.                                         *)

\* connections the clients keep open at once
MaxLoad == 4100

LoadStart == [pc |-> "load", handling |-> 0]

\* listener.accept() yields a connection and handle_client is spawned
LoadAccept ==
    /\ srv.pc = "load"
    /\ srv.handling < MaxLoad
    /\ srv' = [srv EXCEPT !.handling = @ + 1]
    /\ UNCHANGED notSrv

\* listener.accept() fails: logged, nothing is spawned
LoadAcceptFail ==
    /\ srv.pc = "load"
    /\ srv' = srv
    /\ UNCHANGED notSrv

\* a handle_client task returns, Ok or Err
LoadFinish ==
    /\ srv.pc = "load"
    /\ srv.handling > 0
    /\ srv' = [srv EXCEPT !.handling = @ - 1]
    /\ UNCHANGED notSrv

LoadInit ==
    /\ srv = LoadStart
    /\ addr = Idle /\ vl = Idle /\ au = Idle /\ ver = Idle /\ adm = Idle
    /\ rq = Idle /\ xh = Idle /\ snf = Idle
    /\ ps = Idle

LoadNext == LoadAccept \/ LoadAcceptFail \/ LoadFinish

SpecLoad == LoadInit /\ [][LoadNext]_vars

\* C24: the connections being handled at once never exceed the default
\* capacity of 4096.
C24_BoundedConcurrency == srv.pc = "load" => srv.handling <= 4096


----------------------------------------------------------------------------
(* The AAD of verify_client_reality on ClientHellos with chosen randoms and *)
(* session ids                                                              *)

Bytes32(b) == Rep(b, 32)

\* randoms and 32-byte session ids, among them constant ones and the
\* sealed one of a Reality client
AadRandoms ==
    {ClientRandom, [i \in 1..32 |-> (3 * i) % 256]}
        \cup {Bytes32(b) : b \in {0, 17, 32, 255}}

AadSessionIds ==
    {[i \in 1..32 |-> i], [i \in 1..32 |-> (200 + i) % 256]}
        \cup {Bytes32(b) : b \in {0, 1, 17, 32, 255}}

AadHellos ==
    LET exts == SniBytes(Www) \o KeyShareBytes(X25519Public(ClientSecret))
    IN  {HandshakeRecord(HelloMessage(r, sid, exts)) :
            r \in AadRandoms, sid \in AadSessionIds}
        \cup {ClientHelloOf(k, Key42, Payload("A", Sid8)) : k \in {"reality", "cut"}}

AadInit ==
    /\ ver \in {VerStart(<<Sid8>>, hello, Payload("A", Sid8)) : hello \in AadHellos}
    /\ addr = Idle /\ vl = Idle /\ au = Idle /\ adm = Idle /\ rq = Idle
    /\ xh = Idle /\ srv = Idle /\ snf = Idle
    /\ ps = Idle

SpecAad == AadInit /\ [][VerNext]_vars

\* The handshake message with the session_id field, offsets 39..71, zeroed
SessionIdFieldZeroed(full_client_hello) ==
    LET handshake_msg == Drop(full_client_hello, 5)
    IN  [j \in 1..Len(handshake_msg) |->
            IF 39 < j /\ j <= 71 THEN 0 ELSE handshake_msg[j]]

\* C31: for a ClientHello with a 32-byte session id, the AAD handed to the
\* AEAD is the handshake message with exactly the 32 bytes of the
\* session_id field zeroed and every other byte unchanged.
C31_AadZeroesSessionIdField ==
    (ver.pc = "verified" /\ ver.aad # <<>>)
        => ver.aad = SessionIdFieldZeroed(ver.hello)


----------------------------------------------------------------------------
(* transport/reality/server_rustls.rs: PrefixedStream                       *)
(* The captured bytes are replayed by the first reads, then reads go to     *)
(* the inner stream; writes, flushes and shutdown go to the inner stream.   *)

\* largest ReadBuf the reader brings
MaxReadCap == 3

\* bytes the writer writes in one behaviour
MaxWritten == 2

PsStart(prefix, inner) ==
    [pc |-> "stream",
     prefix |-> prefix, position |-> 0,    \* Cursor<Vec<u8>>
     inner |-> inner,                      \* bytes the inner stream will yield
     innerRead |-> 0,                      \* how many of them it has yielded
     innerPolled |-> FALSE,                \* inner.poll_read was called
     out |-> <<>>,                         \* bytes the reads have produced
     written |-> <<>>,                     \* bytes inner.poll_write accepted
     flushed |-> FALSE, shutdown |-> FALSE]

\* The prefix arm of poll_read: the slice put into buf and the new cursor.
\* A mutant first: the slice is taken from the start of the prefix.
PrefixSliceFromStart(prefix, pos, remaining) ==
    LET dst_len == Min(Len(prefix) - pos, remaining)
    IN  [bytes |-> SubSeq(prefix, 1, dst_len), position |-> pos + dst_len]

PrefixSlice(prefix, pos, remaining) ==
    LET avail == Len(prefix) - pos
        dst_len == Min(avail, remaining)
    IN  [bytes |-> SubSeq(prefix, pos + 1, pos + dst_len),
         position |-> pos + dst_len]

\* poll_read with a ReadBuf of `remaining` free bytes.  With prefix bytes
\* left it serves them and returns Ready; otherwise the inner stream is
\* polled, which yields some of its bytes, none at its end, or is Pending.
PsPollRead ==
    /\ ps.pc = "stream"
    /\ \E remaining \in 0..MaxReadCap :
          IF ps.position < Len(ps.prefix)
          THEN LET slice == PrefixSlice(ps.prefix, ps.position, remaining)
               IN  ps' = [ps EXCEPT !.out = @ \o slice.bytes,
                                    !.position = slice.position]
          ELSE \E n \in 0..Min(remaining, Len(ps.inner) - ps.innerRead) :
                  ps' = [ps EXCEPT
                           !.innerPolled = TRUE,
                           !.out = @ \o SubSeq(ps.inner, ps.innerRead + 1,
                                               ps.innerRead + n),
                           !.innerRead = @ + n]
    /\ UNCHANGED notPs

\* poll_write: the inner stream accepts the first n bytes of buf
PsPollWrite ==
    /\ ps.pc = "stream" /\ ~ps.shutdown
    /\ \E buf \in {<<4>>, <<5, 6>>} : \E n \in 1..Len(buf) :
          /\ Len(ps.written) + n <= MaxWritten
          /\ ps' = [ps EXCEPT !.written = @ \o Take(buf, n)]
    /\ UNCHANGED notPs

PsPollFlush ==
    /\ ps.pc = "stream" /\ ~ps.shutdown
    /\ ps' = [ps EXCEPT !.flushed = TRUE]
    /\ UNCHANGED notPs

PsPollShutdown ==
    /\ ps.pc = "stream"
    /\ ps' = [ps EXCEPT !.shutdown = TRUE]
    /\ UNCHANGED notPs

PsPrefixes == {<<>>, <<22>>, <<22, 3, 1>>, <<22, 3, 1, 0, 5>>}

PsInit ==
    /\ ps \in {PsStart(prefix, inner) :
                 prefix \in PsPrefixes, inner \in {<<>>, <<7, 8, 9>>}}
    /\ addr = Idle /\ vl = Idle /\ au = Idle /\ ver = Idle /\ adm = Idle
    /\ rq = Idle /\ xh = Idle /\ srv = Idle /\ snf = Idle

PsNext == PsPollRead \/ PsPollWrite \/ PsPollFlush \/ PsPollShutdown

SpecPrefixed == PsInit /\ [][PsNext]_vars

\* What the reads have produced: the prefix up to the cursor, then what the
\* inner stream yielded, which begins only after the whole prefix.
PsReplay ==
    ps.pc = "stream" =>
        /\ ps.out = Take(ps.prefix, ps.position)
                      \o Take(ps.inner, ps.innerRead)
        /\ ps.out = Take(ps.prefix \o ps.inner, Len(ps.out))
        /\ ps.innerPolled => ps.position = Len(ps.prefix)

\* A step on the write side leaves the read side as it was.
PsWriteSide ==
    (ps.pc = "stream" /\ (\/ ps'.written # ps.written
                          \/ ps'.flushed # ps.flushed
                          \/ ps'.shutdown # ps.shutdown))
        => /\ ps'.position = ps.position
           /\ ps'.out = ps.out
           /\ ps'.innerRead = ps.innerRead

\* C32: successive reads of PrefixedStream produce the prefix, each byte
\* once, then the inner stream's bytes; the inner stream is not polled for
\* reading before the prefix is consumed; writes, flushes and shutdown
\* leave the cursor alone.
C32_PrefixThenInner == []PsReplay /\ [][PsWriteSide]_vars

\* A five-byte prefix was replayed by several reads between writes, and
\* the inner stream's bytes followed.
C32_Witness ==
    /\ ps.pc = "stream"
    /\ ps.prefix = <<22, 3, 1, 0, 5>>
    /\ ps.out = <<22, 3, 1, 0, 5, 7, 8, 9>>
    /\ ps.written # <<>> /\ ps.flushed /\ ps.shutdown


----------------------------------------------------------------------------
(* Admission of records near the 16 KiB limit                               *)

\* The padding extension (type 21) with n zero bytes
PaddingBytes(n) == <<0, 21>> \o PutU16(n) \o Rep(0, n)

\* A Reality client's ClientHello record of `total` bytes, padded
PaddedHello(total) ==
    LET exts == SniBytes(Www) \o KeyShareBytes(X25519Public(ClientSecret))
        bare == ClientHelloOf("reality", Key42, Payload("B", Sid8))
        pad == total - Len(bare) - 4
    IN  RealityClientHello(X25519Public(Key42), ClientSecret, ClientRandom,
                           Payload("B", Sid8), exts \o PaddingBytes(pad))

\* one record a little longer than the limit, whole; and the first
\* RecordLimit bytes of a record that announces more than accept will read
LongHello == PaddedHello(RecordLimit + 11)
CappedHello == Take(PaddedHello(RecordLimit + 2 * ChunkSize), RecordLimit)

\* the first segment of a long client is short or a whole chunk, the
\* following reads fill their chunk
FirstSegment == 100

SegmentCuts(len) ==
    {p \in 0..len : \/ p = len
                    \/ p % ChunkSize = 0
                    \/ p % ChunkSize = FirstSegment}

LargeClients == {LongHello, CappedHello}

LargeInit ==
    /\ adm \in {AdmStart([private_key |-> Key42, short_ids |-> <<Sid8>>], c, cl,
                         [reply |-> OriginReply, closes |-> oc]) :
                  c \in AdmClients, cl \in BOOLEAN, oc \in BOOLEAN}
               \cup
               {[AdmStart([private_key |-> Key42, short_ids |-> <<Sid8>>], c, cl,
                          [reply |-> OriginReply, closes |-> TRUE])
                   EXCEPT !.cuts = SegmentCuts(Len(c))] :
                  c \in LargeClients, cl \in BOOLEAN}
    /\ addr = Idle /\ vl = Idle /\ au = Idle /\ ver = Idle /\ rq = Idle
    /\ xh = Idle /\ srv = Idle /\ snf = Idle /\ ps = Idle

SpecAdmLarge == LargeInit /\ [][AdmNext]_vars

RecordLen(buffer) == U16(buffer[4], buffer[5])

\* What the buffer holds when accept decides
DecidedOnEnough ==
    adm.decided =>
        \/ adm.eof
        \/ Len(adm.buffer) < 5 /\ adm.closes
        \/ /\ Len(adm.buffer) >= 5 /\ adm.buffer[1] # 22
           /\ Len(adm.buffer) = adm.needed
           /\ Len(adm.buffer) < 5 + ChunkSize
        \/ /\ Len(adm.buffer) >= 5 /\ adm.buffer[1] = 22
           /\ Len(adm.buffer) >= Min(5 + RecordLen(adm.buffer), RecordLimit)

BufferBounded ==
    adm.pc # "idle" => Len(adm.buffer) <= RecordLimit + ChunkSize - 1

\* A record that announces more than the limit is sent to fallback
OverLimitFallsBack ==
    (/\ adm.decided
     /\ Len(adm.buffer) >= 5 /\ adm.buffer[1] = 22
     /\ RecordLen(adm.buffer) > RecordLimit)
        => ~adm.acceptorInvoked

\* C33: when accept decides, the client has closed, or the buffer holds a
\* complete header of a non-handshake record and nothing read after it, or
\* a handshake record up to its announced length or the 16 KiB limit; the
\* buffer stays within 16384 + 1023 bytes; a record announcing more than
\* the limit goes to fallback.
C33_DecisionPoint == DecidedOnEnough /\ BufferBounded /\ OverLimitFallsBack


----------------------------------------------------------------------------
(* parse_client_hello on well-formed, cut and damaged ClientHellos          *)

\* A server_name list whose host_name entry is the second one, and a
\* client_shares list whose X25519 key of 32 bytes is the third entry
SniBytesTwo ==
    LET list == <<1>> \o PutU16(2) \o <<9, 9>> \o <<0>> \o PutU16(Len(Www)) \o Www
    IN  <<0, 0>> \o PutU16(Len(list) + 2) \o PutU16(Len(list)) \o list

KeyShareBytesThree ==
    LET shares == <<0, 23>> \o PutU16(4) \o <<1, 2, 3, 4>>
                    \o <<0, 29>> \o PutU16(2) \o <<5, 6>>
                    \o <<0, 29>> \o PutU16(32) \o X25519Public(ClientSecret)
    IN  <<0, 51>> \o PutU16(Len(shares) + 2) \o PutU16(Len(shares)) \o shares

ParseBase ==
    HandshakeRecord(HelloMessage(ClientRandom, Bytes32(7),
                                 KeyShareBytesThree \o SniBytesTwo))

\* the record header's length set to what follows it
FitRecord(bytes) ==
    IF Len(bytes) < 5 THEN bytes
    ELSE Take(bytes, 3) \o PutU16(Len(bytes) - 5) \o Drop(bytes, 5)

\* values a damaged byte takes
DamageValues == {0, 255}

\* the base, its cuts at every length (as they are, and as whole records),
\* and the base with one byte replaced
ParseInputs ==
    {Take(ParseBase, n) : n \in 0..Len(ParseBase)}
        \cup {FitRecord(Take(ParseBase, n)) : n \in 0..Len(ParseBase)}
        \cup {[ParseBase EXCEPT ![k] = v] : k \in 1..Len(ParseBase), v \in DamageValues}

ParseInit ==
    /\ ver \in {VerStart(<<Sid8>>, hello, <<>>) : hello \in ParseInputs}
    /\ addr = Idle /\ vl = Idle /\ au = Idle /\ adm = Idle /\ rq = Idle
    /\ xh = Idle /\ srv = Idle /\ snf = Idle /\ ps = Idle

SpecParse == ParseInit /\ [][VerNext]_vars

\* bytes[p+1 .. p+n] lies inside the buffer and equals s
LiesAt(bytes, p, s) ==
    /\ p + Len(s) <= Len(bytes)
    /\ \A k \in 1..Len(s) : bytes[p + k] = s[k]

\* C34: parse_client_hello ends with Ok(Some), Ok(None) or Err on every byte
\* string; what it returns was read inside the buffer under the announced
\* lengths: the record is complete, the random and the session id are the
\* bytes at their offsets, the session id has its announced length, a key
\* share is the 32-byte key of an entry with group 0x001d and key_len 32,
\* and a server name is the name of a host_name entry.
C34_ParseBounded ==
    ver.pc \in {"parsed", "verified", "fallback"} =>
        LET info == ver.info
            buf == ver.hello
        IN  /\ info.kind \in {"some", "none", "err"}
            /\ info.kind = "some" =>
                 /\ Len(buf) >= 5 + RecordLen(buf)
                 /\ LiesAt(buf, 11, info.client_random)
                 /\ Len(info.client_random) = 32
                 /\ Len(info.session_id) = buf[44]
                 /\ LiesAt(buf, 44, info.session_id)
                 /\ info.public_key.some =>
                      /\ Len(info.public_key.v) = 32
                      /\ \E p \in 44..Len(buf) :
                            LiesAt(buf, p, <<0, 29, 0, 32>> \o info.public_key.v)
                 /\ info.server_name.some =>
                      \E p \in 44..Len(buf) :
                         LiesAt(buf, p, <<0>> \o PutU16(Len(info.server_name.v))
                                            \o info.server_name.v)

\* A ClientHello with one byte damaged or cut short that still parses, key
\* share and server name found behind the entries that are skipped.
C34_Witness ==
    /\ ver.pc \in {"verified", "fallback"}
    /\ ver.hello # ParseBase
    /\ ver.info.kind = "some"
    /\ ver.info.public_key = Some(X25519Public(ClientSecret))
    /\ ver.info.server_name = Some(Www)


----------------------------------------------------------------------------
(* What modify_server_hello changes, and whether its tag can be confirmed   *)

\* C35: modify_server_hello changes nothing but the 12 bytes at offsets
\* 26..38 of the message, and on an error it leaves the message as it was.
C35_OnlyTheTagBytes ==
    au.pc \in {"modified", "failed", "sent", "checked"} =>
        /\ Len(au.raw_data) = Len(au.before)
        /\ \A k \in 1..Len(au.before) :
              (au.pc = "failed" \/ k <= 26 \/ k > 38) => au.raw_data[k] = au.before[k]

\* A ServerHello of new_reality was modified: its tag bytes changed, and
\* session id and extensions follow the random.
C35_Witness ==
    /\ au.pc = "modified"
    /\ Len(au.raw_data) > 38 + 32
    /\ SubSeq(au.raw_data, 27, 38) # SubSeq(au.before, 27, 38)

\* C39: the tag of the emitted random is confirmed by verify_auth_tag on
\* that random.
C39_TagRoundTrip == au.pc = "checked" => au.tagConfirmed


----------------------------------------------------------------------------
(* Overlapping GETs on one path                                             *)

\* C36: the end of a GET removes only the entry this GET inserted: when the
\* table maps the path to another GET's session, it still does after the
\* step in which this GET ends.
C36_RemovesOwnEntryOnly ==
    [][xh.pc = "serving" =>
         \A g \in XhGets :
            LET path == xh.reqs[g].path
            IN  (/\ xh.st[g].pc = "get" /\ xh'.st[g].pc = "done"
                 /\ xh.sessions[path] # g)
                    => xh'.sessions[path] = xh.sessions[path]]_vars


----------------------------------------------------------------------------
(* Frame boundaries of a UDP association                                    *)

RECURSIVE FrameStarts(_, _)
\* The offsets in the client's payload at which a frame starts, the end of
\* the last whole frame included
FrameStarts(bytes, base) ==
    IF Len(bytes) < 2 THEN {base}
    ELSE LET n == U16(bytes[1], bytes[2])
         IN  IF n = 0 \/ Len(bytes) < 2 + n THEN {base}
             ELSE {base} \cup FrameStarts(Drop(bytes, 2 + n), base + 2 + n)

\* how much of the client's payload the driver has taken from the stream
PayloadTaken == Len(ClientPayload) - (Len(vl.stream) - vl.pos)

\* C37: whenever the client-to-UDP loop is about to read a length prefix,
\* it stands at the start of a frame of the client's payload, and each
\* frame before that point has been forwarded as one datagram, also those
\* that arrived in the read that carried the header.
C37_FramesInSync ==
    (/\ vl.request.ok /\ vl.request.command = "Udp"
     /\ vl.pc = "udp_loop" /\ vl.frame_len = -1)
        => /\ PayloadTaken \in FrameStarts(ClientPayload, 0)
           /\ Len(vl.sent) =
                 Cardinality({s \in FrameStarts(ClientPayload, 0) : s < PayloadTaken})


----------------------------------------------------------------------------
(* The request header across reads                                          *)

\* C38: a stream that begins with a valid request header is decoded
\* successfully however its bytes are split over reads.
C38_AnySegmentation ==
    (/\ vl.decoded
     /\ VlessRequestDecode(vl.stream, vl.allowed_uuids).ok)
        => vl.request.ok


----------------------------------------------------------------------------
(* Admission under fair scheduling                                          *)

\* The task in accept is polled when the socket has data or has closed,
\* and it goes on from one step to the next
FairClients ==
    {<<>>, ShortNonTls, HelloNonTls, RecordFragment,
     ClientHelloOf("reality", Key42, Payload("B", Sid8)), CappedHello}

FairInit ==
    /\ adm \in {[AdmStart([private_key |-> Key42, short_ids |-> <<Sid8>>], c, cl,
                          [reply |-> OriginReply, closes |-> TRUE])
                   EXCEPT !.cuts = IF c \in LargeClients
                                   THEN SegmentCuts(Len(c)) ELSE @] :
                  c \in FairClients, cl \in BOOLEAN}
    /\ addr = Idle /\ vl = Idle /\ au = Idle /\ ver = Idle /\ rq = Idle
    /\ xh = Idle /\ srv = Idle /\ snf = Idle /\ ps = Idle

\* accept stands between its last read and its branch.  AdmDecide is
\* enabled exactly here and always leaves this point, so weak fairness of
\* AdmDecide says that no behaviour stays here for ever; AdmDecideDue says
\* the same with a step that needs no parsing to be found enabled.
AdmDecideDue ==
    /\ adm.pc = "read_rec" /\ (adm.eof \/ ~WantsMore(adm.buffer, adm.needed))
    /\ adm' = [adm EXCEPT !.decided = TRUE]
    /\ UNCHANGED notAdm

SpecAdmFair ==
    /\ FairInit /\ [][AdmNext]_vars
    /\ WF_vars(AdmReadHdr) /\ WF_vars(AdmReadHdrEof)
    /\ WF_vars(AdmReadRec) /\ WF_vars(AdmReadRecEof)
    /\ WF_vars(AdmDecideDue)

\* The client closes, or it delivers a header of a non-handshake record, or
\* a handshake record up to its announced length or the limit
DeliversEnough ==
    \/ adm.closes
    \/ /\ Len(adm.client) >= 5
       /\ \/ adm.client[1] # 22
          \/ Len(adm.client) >= Min(5 + RecordLen(adm.client), RecordLimit)

AcceptSettled == adm.decided \/ adm.result = "error"

\* A step that stays in a read loop has consumed input or seen the end
ReadsConsume ==
    (/\ adm.pc \in {"read_hdr", "read_rec"}
     /\ adm'.pc \in {"read_hdr", "read_rec"}
     /\ adm' # adm)
        => adm'.pos > adm.pos \/ (adm'.eof /\ ~adm.eof) \/ adm'.pc # adm.pc

\* C40: with a client that closes or delivers enough, accept reaches its
\* decision or fails, and no step of its read loops leaves the input where
\* it was.
C40_AdmissionTerminates ==
    /\ (adm.pc = "read_hdr" /\ DeliversEnough) ~> AcceptSettled
    /\ [][ReadsConsume]_vars

\* accept decided on a record that announces more than the client sent,
\* the client keeping the connection open: the limit ended the waiting.
C40_Witness ==
    /\ adm.decided /\ adm.client = CappedHello /\ ~adm.closes
    /\ Len(adm.buffer) = RecordLimit

====
